---- MODULE Spec2Model ----
(***************************************************************************)
(* bevy_sparse_tilemap: the chunked, layered tile storage.                 *)
(*                                                                         *)
(* The module models the coordinate conversions (Cell -> ChunkPos,         *)
(* Cell -> ChunkCell), the per-layer storage (dense grid / sparse map),    *)
(* Chunk, the MapData decompositions of a dense Vec<Vec<T>> and of a       *)
(* sparse HashMap<Cell, T> into a grid of chunks, and                      *)
(* TilemapManager::dimensions.                                             *)
(*                                                                         *)
(* Specifications:                                                         *)
(*   SpecConv   the two conversions applied to cells of both signs         *)
(*   Spec       a layer description is broken into chunks, then read       *)
(*   SpecLayers Chunk::new followed by Chunk::add_layer calls               *)
(*   SpecStore  Chunk::new followed by Chunk::set_tile_data calls           *)
(*   SpecIso    a chunk of two layers written by set_tile_data calls       *)
(*   SpecRows   rows of any lengths given to the dense constructors        *)
(*   SpecDense  the dense constructors taking a width and a height         *)
(*   SpecBuild  TilemapBuilder::spawn_tilemap with additional layers       *)
(*   SpecRead   a spawned tilemap read through TilemapManager              *)
(*   SpecManager a spawned tilemap's tile entities got, spawned, despawned *)
(***************************************************************************)
EXTENDS Integers, Sequences, FiniteSets, TLC

VARIABLES
    pc,      \* position of the calling code
    args,    \* the arguments the calling code holds
    chunks,  \* Vec<Vec<Chunk>>: chunks[cy + 1][cx + 1] is the chunk at (cx, cy)
    nops,    \* number of mutating calls made on the chunk so far
    ret,     \* what the last call returned
    chunk_entities,  \* Chunks::chunk_entities, the Grid<Entity> of chunk handles
    commands,        \* the host: entities spawned so far, entities told to despawn
    layer_index      \* TilemapManager::layer_index, the active layer

vars == <<pc, args, chunks, nops, ret, chunk_entities, commands, layer_index>>

(***************************************************************************)
(* Bounds of the model.                                                    *)
(***************************************************************************)
\* map sizes W, H range over 1..MaxMap
MaxMap == 4
\* max_chunk_size.x, max_chunk_size.y range over 1..MaxChunk
MaxChunk == 3
\* cells given to the conversions range over -MaxCoord..MaxCoord per axis
MaxCoord == 4
\* mutating calls made on a chunk in SpecLayers and SpecStore
MaxOps == 2
\* chunk sizes and payload sizes of SpecLayers and SpecStore range over 1..MaxDim
MaxDim == 2
\* map sizes and max chunk sizes of SpecBuild, SpecRead and SpecManager range
\* over 1..MaxSide
MaxSide == 2
\* entities 1..PreSpawned are spawned by the caller before the build, to be
\* given to the builder as tile entities
PreSpawned == 2
\* rows given to new_dense_from_vecs: at most MaxRows rows of at most MaxRow tiles
MaxRows == 3
MaxRow == 2

(***************************************************************************)
(* Value types.                                                            *)
(***************************************************************************)
UVec2(x, y) == [x |-> x, y |-> y]
Cell(x, y) == [x |-> x, y |-> y]
ChunkPos(x, y) == [x |-> x, y |-> y]
ChunkCell(x, y) == [x |-> x, y |-> y]

\* T::default() of the tile payload; tile payloads are integers
TileDefault == 0
\* payloads the callers write
TileValues == {1, 2}
\* Option::None
None == [some |-> FALSE]
Some(v) == [some |-> TRUE, val |-> v]

Min(a, b) == IF a <= b THEN a ELSE b

(***************************************************************************)
(* Integer arithmetic of the source.                                       *)
(***************************************************************************)
\* `a / b` on i32 with b > 0: the quotient is truncated toward zero
i32_div(a, b) == IF a >= 0 THEN a \div b ELSE -((-a) \div b)

(***************************************************************************)
(* f32 arithmetic of the source.  A non-negative f32 is held exactly as    *)
(* an integer count of 2^-26 (every f32 in [1/8, 32) is such a multiple).  *)
(* Each operation rounds its exact result to the 24 significant bits of    *)
(* an f32, ties to even.                                                   *)
(***************************************************************************)
\* significant bits of an f32
F32Bits == 24
\* binary digits the representation keeps behind the point
FracBits == F32Bits + 2
One == 2 ^ FracBits
\* the smallest binary exponent the representation holds exactly: 2^-3
MinExp == (F32Bits - 1) - FracBits

\* round-half-even of n / d to an integer (n >= 0, d > 0)
RoundHalfEven(n, d) ==
    LET q == n \div d
        r == n % d
    IN  IF 2 * r > d \/ (2 * r = d /\ q % 2 = 1) THEN q + 1 ELSE q

\* floor(log2(a / b)) for integers a, b > 0 with a / b >= 2^MinExp
RECURSIVE Log2Ratio(_, _, _)
Log2Ratio(a, b, e) ==
    IF e >= 0
    THEN IF a < b * (2 ^ (e + 1)) THEN e ELSE Log2Ratio(a, b, e + 1)
    ELSE IF a * (2 ^ (-e - 1)) < b THEN e ELSE Log2Ratio(a, b, e + 1)

\* the f32 nearest to the rational a / b (small integers, a >= 0, b > 0)
F32OfRatio(a, b) ==
    IF a = 0 THEN 0
    ELSE LET e == Log2Ratio(a, b, MinExp)
             \* one unit in the last place is 2^(e - 23) = 2^-s
             s == (F32Bits - 1) - e
             m == RoundHalfEven(a * (2 ^ s), b)
         IN  m * (2 ^ (FracBits - s))

\* floor(log2(q * 2^-26)) for a held value q > 0
RECURSIVE Log2Held(_, _)
Log2Held(q, e) ==
    IF q < 2 ^ (FracBits + e + 1) THEN e ELSE Log2Held(q, e + 1)

\* the f32 nearest to the exact value q * 2^-26
F32Round(q) ==
    IF q = 0 THEN 0
    ELSE LET e == Log2Held(q, MinExp)
             \* one unit in the last place, as a count of 2^-26
             ulp == 2 ^ (FracBits - (F32Bits - 1) + e)
         IN  RoundHalfEven(q, ulp) * ulp

\* `a as f32 / b as f32`, and `(f64::from(a) / f64::from(b)) as f32`: for the
\* small integers of the model the f64 quotient rounds to the same f32
F32Div(a, b) == F32OfRatio(a, b)
\* `p - n as f32`
F32SubInt(p, n) == F32Round(p - n * One)
\* `p * n as f32`
F32MulInt(p, n) == F32Round(p * n)
\* `n as f32 % p` (fmod, exact) compared with 0.0
F32RemIsZero(n, p) == (n * One) % p = 0
\* `p.ceil() as u32`
F32Ceil(p) == (p + One - 1) \div One

(***************************************************************************)
(* Coordinate conversions.                                                 *)
(***************************************************************************)
\* SquareMapData::into_chunk_pos(cell, conversion_settings)
Square_into_chunk_pos(cell, max_chunk_size) ==
    ChunkPos(i32_div(cell.x, max_chunk_size.x), i32_div(cell.y, max_chunk_size.y))

\* HexMapData::into_chunk_pos(&self, cell)
Hex_into_chunk_pos(cell, max_chunk_size) ==
    ChunkPos(i32_div(cell.x, max_chunk_size.x), i32_div(cell.y, max_chunk_size.y))

\* SquareChunkLayer::into_chunk_cell(cell, chunk_settings)
Square_into_chunk_cell(cell, max_chunk_size) ==
    LET chunk_pos_x == i32_div(cell.x, max_chunk_size.x)
        chunk_pos_y == i32_div(cell.y, max_chunk_size.y)
    IN  ChunkCell(cell.x - (chunk_pos_x * max_chunk_size.x),
                  cell.y - (chunk_pos_y * max_chunk_size.y))

\* HexChunkLayer::into_chunk_cell(cell, chunk_settings)
Hex_into_chunk_cell(cell, max_chunk_size) ==
    LET chunk_pos_x == i32_div(cell.x, max_chunk_size.x)
        chunk_pos_y == i32_div(cell.y, max_chunk_size.y)
    IN  ChunkCell(cell.x - (chunk_pos_x * max_chunk_size.x),
                  cell.y - (chunk_pos_y * max_chunk_size.y))

\* the two topologies: the MapData / ChunkLayer implementations of the crate
Topologies == {"Square", "Hex"}

\* MapData::into_chunk_pos of the topology
into_chunk_pos(topo, cell, max_chunk_size) ==
    IF topo = "Square" THEN Square_into_chunk_pos(cell, max_chunk_size)
                       ELSE Hex_into_chunk_pos(cell, max_chunk_size)

\* ChunkLayer::into_chunk_cell of the topology
into_chunk_cell(topo, cell, max_chunk_size) ==
    IF topo = "Square" THEN Square_into_chunk_cell(cell, max_chunk_size)
                       ELSE Hex_into_chunk_cell(cell, max_chunk_size)

(***************************************************************************)
(* The orientations of a hex map.                                          *)
(***************************************************************************)
\* HexOrientation
HexOrientations == {"Pointy", "Flat"}

\* the two offset modes given to the other orientation each
hex_offset_from_orientation_swapped(orientation) ==
    IF orientation = "Pointy" THEN "OddColumns" ELSE "OddRows"

\* hex_offset_from_orientation(orientation)
hex_offset_from_orientation(orientation) ==
    IF orientation = "Pointy" THEN "OddRows" ELSE "OddColumns"

\* the first n binary digits of r / b behind the point (0 <= r < b), added
\* to q * 2^n, and the remainder left over
RECURSIVE BinaryDigits(_, _, _, _)
BinaryDigits(r, b, n, q) ==
    IF n = 0 THEN [q |-> q, r |-> r]
    ELSE IF 2 * r >= b THEN BinaryDigits((2 * r) - b, b, n - 1, (2 * q) + 1)
                       ELSE BinaryDigits(2 * r, b, n - 1, 2 * q)

\* the f32 a decimal literal a / b below 1 stands for: the nearest f32,
\* ties to even
F32OfLiteral(a, b) ==
    LET s == (F32Bits - 1) - Log2Ratio(a, b, MinExp)
        d == BinaryDigits(a, b, s, 0)
        m == IF 2 * d.r > b \/ (2 * d.r = b /\ d.q % 2 = 1) THEN d.q + 1 ELSE d.q
    IN  m * (2 ^ (FracBits - s))

\* hex_rotation(orientation): Quat::from_rotation_z(angle), held as its axis
\* and its angle, the f32 of the literal 0.0 or 0.52359878
hex_rotation(orientation) ==
    [axis |-> "z",
     angle |-> IF orientation = "Pointy" THEN 0
                                         ELSE F32OfLiteral(52359878, 100000000)]

(***************************************************************************)
(* Grid<T> (row-major rows x cols storage used by the dense layer).        *)
(***************************************************************************)
\* Grid::init(rows, cols, value)
GridInit(rows, cols, value) ==
    [rows |-> rows, cols |-> cols, data |-> [i \in 1..(rows * cols) |-> value]]

\* Grid::get(row, col) with row, col given as `i32 as usize`: a negative i32
\* becomes a usize above every grid size, so the bounds check fails
GridGet(grid, row, col) ==
    IF row >= 0 /\ row < grid.rows /\ col >= 0 /\ col < grid.cols
    THEN Some(grid.data[row * grid.cols + col + 1])
    ELSE None

\* `if let Some(tile) = grid.get_mut(row, col) { *tile = value }`
GridSet(grid, row, col, value) ==
    IF row >= 0 /\ row < grid.rows /\ col >= 0 /\ col < grid.cols
    THEN [grid EXCEPT !.data[row * grid.cols + col + 1] = value]
    ELSE grid

(***************************************************************************)
(* Layer storage: SquareChunkLayerData / HexChunkLayerData.                *)
(***************************************************************************)
EmptyMap == [k \in {} |-> TileDefault]
MapInsert(m, k, v) == [j \in (DOMAIN m) \cup {k} |-> IF j = k THEN v ELSE m[j]]

\* the key without the shifted x: `y as u64` alone
u64_key_without_x(chunk_tile_pos) ==
    <<IF chunk_tile_pos.y < 0 THEN -1 ELSE 0, chunk_tile_pos.y>>

\* `((x as u64) << 32) | (y as u64)` as its two 32-bit words <<high, low>>,
\* each word named by the i32 with that bit pattern.  `y as u64` sign-extends,
\* so a negative y sets every bit of the high word.
u64_key(chunk_tile_pos) ==
    <<IF chunk_tile_pos.y < 0 THEN -1 ELSE chunk_tile_pos.x, chunk_tile_pos.y>>

\* the key of the sparse tile map: the u64 number (square), the (i32, i32)
\* pair (hex)
sparse_key(topo, chunk_tile_pos) ==
    IF topo = "Square" THEN u64_key(chunk_tile_pos)
                       ELSE <<chunk_tile_pos.x, chunk_tile_pos.y>>

\* SquareChunkLayerData::new_dense_default(chunk_size_x, chunk_size_y):
\* `Grid::new(chunk_size_x, chunk_size_y)`, a grid of chunk_size_x rows and
\* chunk_size_y columns of T::default()
new_dense_default(chunk_size_x, chunk_size_y) ==
    [kind |-> "Dense", grid |-> GridInit(chunk_size_x, chunk_size_y, TileDefault)]

\* SquareChunkLayerData::new_dense_uniform(chunk_size_x, chunk_size_y, tile_data):
\* `Grid::init(chunk_size_x, chunk_size_y, tile_data)`
new_dense_uniform(chunk_size_x, chunk_size_y, tile_data) ==
    [kind |-> "Dense", grid |-> GridInit(chunk_size_x, chunk_size_y, tile_data)]

\* `given_tile_count`: the lengths of the first n rows added up
RECURSIVE given_tile_count(_, _)
given_tile_count(tile_data, n) ==
    IF n = 0 THEN 0 ELSE Len(tile_data[n]) + given_tile_count(tile_data, n - 1)

\* the assert_eq! of new_dense_from_vecs fails: rows[0].len() * rows.len()
\* is not the number of tiles given
tile_count_assert_fails(tile_data) ==
    Len(tile_data[1]) * Len(tile_data) # given_tile_count(tile_data, Len(tile_data))

\* new_dense_from_vecs failing on its assertion only, the closure reading
\* the rows without a bounds check
new_dense_from_vecs_panics_on_count(tile_data) ==
    tile_count_assert_fails(tile_data)

\* SquareChunkLayerData::new_dense_from_vecs(tile_data) panics: its
\* assert_eq! fails, or one of the rows.len() * rows[0].len() calls of the
\* fill_with closure indexes `tile_data[current_y][current_x]` past the end
\* of the row
new_dense_from_vecs_panics(tile_data) ==
    LET row_length == Len(tile_data[1])
    IN  \/ tile_count_assert_fails(tile_data)
        \/ \E k \in 0..((Len(tile_data) * row_length) - 1) :
              (k % row_length) + 1 > Len(tile_data[(k \div row_length) + 1])

\* TilemapLayer::new_dense_from_vecs(tile_data) panics: its assert_eq!
\* fails, or the copy loop `x_vec.push(tile_data[y][x])` for x below
\* rows[0].len() indexes past the end of row y
TilemapLayer_new_dense_from_vecs_panics(tile_data) ==
    \/ tile_count_assert_fails(tile_data)
    \/ \E y \in 1..Len(tile_data), x \in 1..Len(tile_data[1]) : x > Len(tile_data[y])

\* SquareChunkLayerData::new_dense_from_vecs(tile_data), the rows of
\* tile_data of one length (its assert_eq! holds)
new_dense_from_vecs(tile_data) ==
    LET row_length == Len(tile_data[1])
        grid == GridInit(Len(tile_data), Len(tile_data[1]), TileDefault)
    IN  [kind |-> "Dense",
         grid |-> [grid EXCEPT !.data =
                     [k \in 1..(grid.rows * grid.cols) |->
                        tile_data[((k - 1) \div row_length) + 1]
                                 [((k - 1) % row_length) + 1]]]]

\* get_dimensions reporting the grid's size() as it is, (rows, cols)
get_dimensions_rows_first(layer_data) ==
    IF layer_data.kind = "Sparse"
    THEN layer_data.dims
    ELSE UVec2(layer_data.grid.rows, layer_data.grid.cols)

\* SquareChunkLayerData::get_dimensions / HexChunkLayerData::get_dimensions
get_dimensions(layer_data) ==
    IF layer_data.kind = "Sparse"
    THEN layer_data.dims
    ELSE UVec2(layer_data.grid.cols, layer_data.grid.rows)

\* SquareChunkLayerData::set_tile_data / HexChunkLayerData::set_tile_data
set_tile_data(topo, layer_data, chunk_tile_pos, tile_data) ==
    IF layer_data.kind = "Sparse"
    THEN [layer_data EXCEPT
            !.map = MapInsert(@, sparse_key(topo, chunk_tile_pos), tile_data)]
    ELSE [layer_data EXCEPT
            !.grid = GridSet(@, chunk_tile_pos.y, chunk_tile_pos.x, tile_data)]

\* SquareChunkLayerData::get_tile_data / HexChunkLayerData::get_tile_data
get_tile_data(topo, layer_data, chunk_tile_pos) ==
    IF layer_data.kind = "Sparse"
    THEN IF sparse_key(topo, chunk_tile_pos) \in DOMAIN layer_data.map
         THEN Some(layer_data.map[sparse_key(topo, chunk_tile_pos)])
         ELSE None
    ELSE GridGet(layer_data.grid, chunk_tile_pos.y, chunk_tile_pos.x)

\* number of entries the storage holds: grid cells (dense), map entries (sparse)
entry_count(layer_data) ==
    IF layer_data.kind = "Sparse"
    THEN Cardinality(DOMAIN layer_data.map)
    ELSE Len(layer_data.grid.data)

(***************************************************************************)
(* ChunkLayer: one layer of a chunk, its tile data and its tile entities.  *)
(* A ChunkLayerType payload is [kind |-> "Dense", rows |-> Vec<Vec<T>>] or *)
(* [kind |-> "Sparse", map |-> HashMap<ChunkCell, T>].                     *)
(***************************************************************************)
DensePayload(rows) == [kind |-> "Dense", rows |-> rows]
SparsePayload(map) == [kind |-> "Sparse", map |-> map]

\* SquareChunkLayer::new / HexChunkLayer::new (layer_type, chunk_dimensions, _)
ChunkLayer_new(topo, layer_type, chunk_dimensions) ==
    IF layer_type.kind = "Dense"
    THEN [layer_type_data |-> new_dense_from_vecs(layer_type.rows),
          tile_entities |-> EmptyMap]
    ELSE [layer_type_data |->
            [kind |-> "Sparse",
             map |-> [k \in {sparse_key(topo, c) : c \in DOMAIN layer_type.map} |->
                        layer_type.map[CHOOSE c \in DOMAIN layer_type.map :
                                          sparse_key(topo, c) = k]],
             dims |-> chunk_dimensions],
          tile_entities |-> EmptyMap]

(***************************************************************************)
(* Chunk.                                                                  *)
(***************************************************************************)
\* the bit of the default layer: `hashmap.insert(1u32, ...)`
DefaultLayer == 1

\* Chunk::new(chunk_pos, chunk_size, tile_data, chunk_settings)
Chunk_new(topo, chunk_pos, chunk_size, tile_data, chunk_settings) ==
    [chunk_pos |-> chunk_pos,
     data |-> [l \in {DefaultLayer} |-> ChunkLayer_new(topo, tile_data, chunk_size)],
     chunk_settings |-> chunk_settings,
     topo |-> topo]

\* Chunk::get_chunk_dimensions: the dimensions layer 1 reports
Chunk_get_chunk_dimensions(chunk) ==
    get_dimensions(chunk.data[DefaultLayer].layer_type_data)

\* add_layer giving the new layer the chunk settings' max_chunk_size in
\* place of the chunk's dimensions
Chunk_add_layer_max_size(chunk, map_layer, tile_data) ==
    [chunk EXCEPT !.data =
        [l \in (DOMAIN chunk.data) \cup {map_layer} |->
            IF l = map_layer
            THEN ChunkLayer_new(chunk.topo, tile_data, chunk.chunk_settings.max_chunk_size)
            ELSE chunk.data[l]]]

\* Chunk::add_layer(map_layer, tile_data)
Chunk_add_layer(chunk, map_layer, tile_data) ==
    [chunk EXCEPT !.data =
        [l \in (DOMAIN chunk.data) \cup {map_layer} |->
            IF l = map_layer
            THEN ChunkLayer_new(chunk.topo, tile_data, Chunk_get_chunk_dimensions(chunk))
            ELSE chunk.data[l]]]

\* set_tile_data writing the tile to every layer of the chunk
Chunk_set_tile_data_every_layer(chunk, map_layer, chunk_cell, tile_data) ==
    [chunk EXCEPT !.data =
        [l \in DOMAIN chunk.data |->
            [chunk.data[l] EXCEPT !.layer_type_data =
                set_tile_data(chunk.topo, @, chunk_cell, tile_data)]]]

\* Chunk::set_tile_data(map_layer, chunk_cell, tile_data), the layer present
Chunk_set_tile_data(chunk, map_layer, chunk_cell, tile_data) ==
    [chunk EXCEPT !.data[map_layer].layer_type_data =
        set_tile_data(chunk.topo, @, chunk_cell, tile_data)]

\* Chunk::get_tile_data(map_layer, chunk_cell), the layer present
Chunk_get_tile_data(chunk, map_layer, chunk_cell) ==
    get_tile_data(chunk.topo, chunk.data[map_layer].layer_type_data, chunk_cell)

\* `self.data.get(&map_layer).expect("MapLayer does not exist in chunk")`
\* of Chunk::get_tile_data, get_tile_entity, set_tile_data, set_tile_entity:
\* the call panics when the chunk has no layer under map_layer
Chunk_layer_missing(chunk, map_layer) == map_layer \notin DOMAIN chunk.data

\* ChunkLayer::get_tile_entity(chunk_tile_pos) of both topologies
ChunkLayer_get_tile_entity(layer, chunk_tile_pos) ==
    IF u64_key(chunk_tile_pos) \in DOMAIN layer.tile_entities
    THEN Some(layer.tile_entities[u64_key(chunk_tile_pos)])
    ELSE None

\* ChunkLayer::set_tile_entity(chunk_tile_pos, entity) of both topologies
ChunkLayer_set_tile_entity(layer, chunk_tile_pos, entity) ==
    [layer EXCEPT !.tile_entities = MapInsert(@, u64_key(chunk_tile_pos), entity)]

\* Chunk::get_tile_entity(map_layer, chunk_cell), the layer present
Chunk_get_tile_entity(chunk, map_layer, chunk_cell) ==
    ChunkLayer_get_tile_entity(chunk.data[map_layer], chunk_cell)

\* set_tile_entity storing the entity on every layer of the chunk
Chunk_set_tile_entity_every_layer(chunk, map_layer, chunk_cell, entity) ==
    [chunk EXCEPT !.data =
        [l \in DOMAIN chunk.data |->
            ChunkLayer_set_tile_entity(chunk.data[l], chunk_cell, entity)]]

\* Chunk::set_tile_entity(map_layer, chunk_cell, entity), the layer present
Chunk_set_tile_entity(chunk, map_layer, chunk_cell, entity) ==
    [chunk EXCEPT !.data[map_layer] = ChunkLayer_set_tile_entity(@, chunk_cell, entity)]

(***************************************************************************)
(* MapData: breaking a layer description into a grid of chunks.            *)
(* The result is a Vec<Vec<Chunk>>: result[cy + 1][cx + 1].                *)
(***************************************************************************)
\* break_data_vecs_down_into_chunk_data taking the chunk position itself for
\* the count of tiles done, without the factor max_chunk_size
break_data_vecs_down_unscaled(data, chunk_pos, max_chunk_size) ==
    LET amount_of_x_tiles_done == chunk_pos.x
        amount_of_y_tiles_done == chunk_pos.y
        y_end == Min(amount_of_y_tiles_done + max_chunk_size.y, Len(data))
        x_end == Min(amount_of_x_tiles_done + max_chunk_size.x, Len(data[1]))
    IN  [j \in 1..(y_end - amount_of_y_tiles_done) |->
            [i \in 1..(x_end - amount_of_x_tiles_done) |->
                data[amount_of_y_tiles_done + j][amount_of_x_tiles_done + i]]]

\* MapData::break_data_vecs_down_into_chunk_data(data, chunk_pos, max_chunk_size)
break_data_vecs_down_into_chunk_data(data, chunk_pos, max_chunk_size) ==
    LET amount_of_x_tiles_done == chunk_pos.x * max_chunk_size.x
        amount_of_y_tiles_done == chunk_pos.y * max_chunk_size.y
        y_end == Min(amount_of_y_tiles_done + max_chunk_size.y, Len(data))
        x_end == Min(amount_of_x_tiles_done + max_chunk_size.x, Len(data[1]))
    IN  [j \in 1..(y_end - amount_of_y_tiles_done) |->
            [i \in 1..(x_end - amount_of_x_tiles_done) |->
                data[amount_of_y_tiles_done + j][amount_of_x_tiles_done + i]]]

\* break_data_vecs_into_chunks naming each chunk ChunkPos::new(y, x)
break_data_vecs_into_chunks_yx(topo, data, max_chunk_size, chunk_settings) ==
    LET chunks_on_x == F32Ceil(F32Div(Len(data[1]), max_chunk_size.x))
        chunks_on_y == F32Ceil(F32Div(Len(data), max_chunk_size.y))
    IN  [cy \in 1..chunks_on_y |->
            [cx \in 1..chunks_on_x |->
                LET vec == break_data_vecs_down_into_chunk_data(
                               data, ChunkPos(cx - 1, cy - 1), max_chunk_size)
                IN  Chunk_new(topo, ChunkPos(cy - 1, cx - 1),
                              UVec2(Len(vec), Len(vec[1])),
                              DensePayload(vec), chunk_settings)]]

\* MapData::break_data_vecs_into_chunks(data, max_chunk_size, chunk_settings)
break_data_vecs_into_chunks(topo, data, max_chunk_size, chunk_settings) ==
    LET chunks_on_x == F32Ceil(F32Div(Len(data[1]), max_chunk_size.x))
        chunks_on_y == F32Ceil(F32Div(Len(data), max_chunk_size.y))
    IN  [cy \in 1..chunks_on_y |->
            [cx \in 1..chunks_on_x |->
                LET vec == break_data_vecs_down_into_chunk_data(
                               data, ChunkPos(cx - 1, cy - 1), max_chunk_size)
                IN  Chunk_new(topo, ChunkPos(cx - 1, cy - 1),
                              UVec2(Len(vec), Len(vec[1])),
                              DensePayload(vec), chunk_settings)]]

\* the size break_hashmap_into_chunks declares on one axis for the chunk with
\* index i on that axis
sparse_chunk_size(i, max_chunks_float, max_chunk_size) ==
    IF ~F32RemIsZero(i, max_chunks_float)
    THEN F32Ceil(F32MulInt(F32SubInt(max_chunks_float, i), max_chunk_size))
    ELSE max_chunk_size

\* the first loop of break_hashmap_into_chunks: one empty sparse chunk per
\* grid position
preallocate_chunks(topo, map_size, max_chunk_size, chunk_settings) ==
    LET max_chunks_floats == [x |-> F32Div(map_size.x, max_chunk_size.x),
                              y |-> F32Div(map_size.y, max_chunk_size.y)]
        max_chunks == UVec2(F32Ceil(max_chunks_floats.x), F32Ceil(max_chunks_floats.y))
    IN  [cy \in 1..max_chunks.y |->
            [cx \in 1..max_chunks.x |->
                Chunk_new(topo, ChunkPos(cx - 1, cy - 1),
                          UVec2(sparse_chunk_size(cx - 1, max_chunks_floats.x, max_chunk_size.x),
                                sparse_chunk_size(cy - 1, max_chunks_floats.y, max_chunk_size.y)),
                          SparsePayload(EmptyMap), chunk_settings)]]

\* the second loop of break_hashmap_into_chunks over the entries `cells` of
\* data not yet written; the cells of the model lie inside the map, where
\* each resolves to a chunk of the grid and to a key of its own
RECURSIVE insert_entries(_, _, _, _, _, _)
insert_entries(topo, grid, map_layer, data, cells, conversion_size) ==
    IF cells = {} THEN grid
    ELSE LET cell == CHOOSE c \in cells : TRUE
             chunk_pos == into_chunk_pos(topo, cell, conversion_size)
             chunk == grid[chunk_pos.y + 1][chunk_pos.x + 1]
             written == Chunk_set_tile_data(chunk, map_layer,
                            into_chunk_cell(topo, cell, chunk.chunk_settings.max_chunk_size),
                            data[cell])
         IN  insert_entries(topo,
                 [grid EXCEPT ![chunk_pos.y + 1][chunk_pos.x + 1] = written],
                 map_layer, data, cells \ {cell}, conversion_size)

\* MapData::break_hashmap_into_chunks(map_layer, data, map_size,
\* max_chunk_size, chunk_settings); conversion_size is the max chunk size
\* of self.conversion_settings (square) / self.max_chunk_size (hex)
break_hashmap_into_chunks(topo, map_layer, data, map_size, max_chunk_size, chunk_settings, conversion_size) ==
    insert_entries(topo,
        preallocate_chunks(topo, map_size, max_chunk_size, chunk_settings),
        map_layer, data, DOMAIN data, conversion_size)

(***************************************************************************)
(* Chunks registry and TilemapManager.                                     *)
(***************************************************************************)
\* Chunks::chunk_counts: (columns, rows) of the chunk grid
chunk_counts(grid) == UVec2(Len(grid[1]), Len(grid))

\* Tilemap::get_chunk / Chunks::get_chunk followed by the chunk query
get_chunk(grid, chunk_pos) ==
    IF chunk_pos.y >= 0 /\ chunk_pos.y < Len(grid)
       /\ chunk_pos.x >= 0 /\ chunk_pos.x < Len(grid[1])
    THEN Some(grid[chunk_pos.y + 1][chunk_pos.x + 1])
    ELSE None

\* TilemapManager::dimensions
dimensions(grid) ==
    LET counts == chunk_counts(grid)
        average_chunk_size == Chunk_get_chunk_dimensions(get_chunk(grid, ChunkPos(0, 0)).val)
        max_x_chunk == Chunk_get_chunk_dimensions(get_chunk(grid, ChunkPos(counts.x - 1, 0)).val)
        max_y_chunk == Chunk_get_chunk_dimensions(get_chunk(grid, ChunkPos(0, counts.y - 1)).val)
    IN  UVec2((average_chunk_size.x * (counts.x - 1)) + max_x_chunk.x,
              (average_chunk_size.y * (counts.y - 1)) + max_y_chunk.y)

(***************************************************************************)
(* TilemapBuilder: the layers of a map broken into one grid of chunks, the *)
(* chunks spawned, their handles put in the Chunks registry.               *)
(* A TilemapLayer is [kind |-> "Dense", data, entities] or                 *)
(* [kind |-> "Sparse", data, map_size, entities]; entities is a            *)
(* HashMap<Cell, Entity>.                                                  *)
(***************************************************************************)
\* `Vec::with_capacity(n)` followed by `fill(value)`: fill overwrites the
\* elements the vector has, and a vector fresh from with_capacity has none
with_capacity_fill(n, value) == [i \in 1..0 |-> value]

\* TilemapLayer::new_dense_default(tile_map_size_x, tile_map_size_y)
TilemapLayer_new_dense_default(tile_map_size_x, tile_map_size_y) ==
    [kind |-> "Dense",
     data |-> [j \in 1..tile_map_size_y |->
                  with_capacity_fill(tile_map_size_x, TileDefault)],
     entities |-> EmptyMap]

\* TilemapLayer::new_dense_uniform(tile_map_size_x, tile_map_size_y, tile_data)
TilemapLayer_new_dense_uniform(tile_map_size_x, tile_map_size_y, tile_data) ==
    [kind |-> "Dense",
     data |-> [j \in 1..tile_map_size_y |->
                  with_capacity_fill(tile_map_size_x, tile_data)],
     entities |-> EmptyMap]

\* TilemapLayer::dimensions, the layer holding a row when dense
TilemapLayer_dimensions(tilemap_layer) ==
    IF tilemap_layer.kind = "Sparse"
    THEN tilemap_layer.map_size
    ELSE UVec2(Len(tilemap_layer.data[1]), Len(tilemap_layer.data))

\* TilemapBuilder::new(layer_data, map_type, chunk_settings, ..): the builder
\* is its main layer, its additional layers, the map size it took from the
\* main layer, and its settings
TilemapBuilder_new(topo, layer_data, max_chunk_size) ==
    [topo |-> topo, max_chunk_size |-> max_chunk_size,
     map_size |-> TilemapLayer_dimensions(layer_data),
     main_layer |-> layer_data,
     layer_info |-> [id \in {} |-> layer_data]]

\* the assertion of add_layer comparing the widths only
add_layer_assert_fails_on_width(builder, layer_data) ==
    builder.map_size.x # TilemapLayer_dimensions(layer_data).x

\* the assert_eq! of TilemapBuilder::add_layer fails
add_layer_assert_fails(builder, layer_data) ==
    builder.map_size # TilemapLayer_dimensions(layer_data)

\* TilemapBuilder::add_layer(layer_data, map_layer), its assert_eq! holding:
\* `self.layer_info.insert(map_layer.to_bits(), layer_data)`
TilemapBuilder_add_layer(builder, layer_data, map_layer) ==
    [builder EXCEPT !.layer_info = MapInsert(@, map_layer, layer_data)]

\* add_entities_to_layer attaching every entity on the default layer
RECURSIVE add_entities_to_default_layer(_, _, _, _, _, _)
add_entities_to_default_layer(topo, grid, map_layer, entities, cells, conversion_size) ==
    IF cells = {} THEN grid
    ELSE LET cell == CHOOSE c \in cells : TRUE
             chunk_pos == into_chunk_pos(topo, cell, conversion_size)
             chunk == grid[chunk_pos.y + 1][chunk_pos.x + 1]
             written == Chunk_set_tile_entity(chunk, DefaultLayer,
                            into_chunk_cell(topo, cell, chunk.chunk_settings.max_chunk_size),
                            entities[cell])
         IN  add_entities_to_default_layer(topo,
                 [grid EXCEPT ![chunk_pos.y + 1][chunk_pos.x + 1] = written],
                 map_layer, entities, cells \ {cell}, conversion_size)

\* MapData::add_entities_to_layer(map_layer, chunks, entities) over the
\* entries `cells` of entities not yet written
RECURSIVE add_entities_to_layer(_, _, _, _, _, _)
add_entities_to_layer(topo, grid, map_layer, entities, cells, conversion_size) ==
    IF cells = {} THEN grid
    ELSE LET cell == CHOOSE c \in cells : TRUE
             chunk_pos == into_chunk_pos(topo, cell, conversion_size)
             chunk == grid[chunk_pos.y + 1][chunk_pos.x + 1]
             written == Chunk_set_tile_entity(chunk, map_layer,
                            into_chunk_cell(topo, cell, chunk.chunk_settings.max_chunk_size),
                            entities[cell])
         IN  add_entities_to_layer(topo,
                 [grid EXCEPT ![chunk_pos.y + 1][chunk_pos.x + 1] = written],
                 map_layer, entities, cells \ {cell}, conversion_size)

\* TilemapBuilder::create_new_chunks_from_layer(tilemap_layer, .., max_chunk_size)
create_new_chunks_from_layer(topo, tilemap_layer, max_chunk_size) ==
    LET chunk_settings == [max_chunk_size |-> max_chunk_size]
        broken == IF tilemap_layer.kind = "Sparse"
                  THEN break_hashmap_into_chunks(topo, DefaultLayer, tilemap_layer.data,
                           tilemap_layer.map_size, max_chunk_size, chunk_settings,
                           max_chunk_size)
                  ELSE break_data_vecs_into_chunks(topo, tilemap_layer.data,
                           max_chunk_size, chunk_settings)
    IN  add_entities_to_layer(topo, broken, DefaultLayer, tilemap_layer.entities,
                              DOMAIN tilemap_layer.entities, max_chunk_size)

\* add_layer_to_chunks giving every chunk the block of chunk (0, 0) of a
\* dense layer
add_layer_to_chunks_first_block(topo, map_layer, grid, tilemap_layer, max_chunk_size) ==
    LET added == [cy \in 1..Len(grid) |->
                    [cx \in 1..Len(grid[1]) |->
                        Chunk_add_layer(grid[cy][cx], map_layer,
                            IF tilemap_layer.kind = "Sparse"
                            THEN SparsePayload(EmptyMap)
                            ELSE DensePayload(break_data_vecs_down_into_chunk_data(
                                     tilemap_layer.data, ChunkPos(0, 0),
                                     max_chunk_size)))]]
        filled == IF tilemap_layer.kind = "Sparse"
                  THEN insert_entries(topo, added, map_layer, tilemap_layer.data,
                                      DOMAIN tilemap_layer.data, max_chunk_size)
                  ELSE added
    IN  add_entities_to_layer(topo, filled, map_layer, tilemap_layer.entities,
                              DOMAIN tilemap_layer.entities, max_chunk_size)

\* TilemapBuilder::add_layer_to_chunks(map_layer, chunks, tilemap_layer,
\* max_chunk_size): every chunk gets the layer (empty when sparse, its block
\* of the rows when dense), then the sparse entries, then the entities
add_layer_to_chunks(topo, map_layer, grid, tilemap_layer, max_chunk_size) ==
    LET added == [cy \in 1..Len(grid) |->
                    [cx \in 1..Len(grid[1]) |->
                        Chunk_add_layer(grid[cy][cx], map_layer,
                            IF tilemap_layer.kind = "Sparse"
                            THEN SparsePayload(EmptyMap)
                            ELSE DensePayload(break_data_vecs_down_into_chunk_data(
                                     tilemap_layer.data, grid[cy][cx].chunk_pos,
                                     max_chunk_size)))]]
        filled == IF tilemap_layer.kind = "Sparse"
                  THEN insert_entries(topo, added, map_layer, tilemap_layer.data,
                                      DOMAIN tilemap_layer.data, max_chunk_size)
                  ELSE added
    IN  add_entities_to_layer(topo, filled, map_layer, tilemap_layer.entities,
                              DOMAIN tilemap_layer.entities, max_chunk_size)

\* the loop `for (id, layer) in layers` of spawn_tilemap over the ids not yet
\* added; the ids are distinct, so the order of the drain does not matter
RECURSIVE add_layers(_, _, _, _, _)
add_layers(topo, grid, layer_info, ids, max_chunk_size) ==
    IF ids = {} THEN grid
    ELSE LET id == CHOOSE i \in ids : TRUE
         IN  add_layers(topo,
                 add_layer_to_chunks(topo, id, grid, layer_info[id], max_chunk_size),
                 layer_info, ids \ {id}, max_chunk_size)

\* Entity::PLACEHOLDER, the value of a registry position no handle was put in
Placeholder == 0

\* the entities commands.spawn hands out in spawn_tilemap: the host numbers
\* its entities 1, 2, ... in the order of the spawn calls, and the chunks
\* are spawned row by row, `chunks[y].remove(0)` for each y
spawned_chunk_entities(grid, first) ==
    [cy \in 1..Len(grid) |->
        [cx \in 1..Len(grid[1]) |-> first + ((cy - 1) * Len(grid[1])) + cx]]

\* new_chunk_entity_grid filling the grid column by column
new_chunk_entity_grid_by_columns(entities) ==
    LET col_length == Len(entities)
        grid == GridInit(Len(entities), Len(entities[1]), Placeholder)
    IN  [grid EXCEPT !.data =
            [k \in 1..(grid.rows * grid.cols) |->
                entities[((k - 1) % col_length) + 1][((k - 1) \div col_length) + 1]]]

\* Chunks::new_chunk_entity_grid(chunk_entities), the rows of chunk_entities
\* of one length (its assert_eq! holds)
new_chunk_entity_grid(entities) ==
    LET row_length == Len(entities[1])
        grid == GridInit(Len(entities), Len(entities[1]), Placeholder)
    IN  [grid EXCEPT !.data =
            [k \in 1..(grid.rows * grid.cols) |->
                entities[((k - 1) \div row_length) + 1][((k - 1) % row_length) + 1]]]

\* TilemapBuilder::spawn_tilemap(commands) on a host that has spawned
\* `first` entities: the grid of chunks as the host stores it, the registry,
\* the number of entities spawned (the chunks and the Tilemap)
spawn_tilemap(topo, main_layer, layer_info, max_chunk_size, first) ==
    LET grid == add_layers(topo,
                    create_new_chunks_from_layer(topo, main_layer, max_chunk_size),
                    layer_info, DOMAIN layer_info, max_chunk_size)
    IN  [chunks |-> grid,
         chunk_entities |-> new_chunk_entity_grid(spawned_chunk_entities(grid, first)),
         spawned |-> first + (Len(grid) * Len(grid[1])) + 1]

(***************************************************************************)
(* TilemapManager: reads and writes of one cell on the active layer.       *)
(* A call returns Ok(value), Err(error) or does not return (Panic).        *)
(***************************************************************************)
Ok(v) == [kind |-> "Ok", val |-> v]
Err(e) == [kind |-> "Err", err |-> e]
Panic == [kind |-> "Panic"]

\* the host before anything is spawned, a default Chunks registry, the
\* default layer active
HostInit ==
    /\ chunk_entities = GridInit(0, 0, Placeholder)
    /\ commands = [spawned |-> 0, despawned |-> {}]
    /\ layer_index = DefaultLayer

\* Chunks::get_chunk(chunk_pos) on the registry
Chunks_get_chunk(registry, chunk_pos) ==
    GridGet(registry, chunk_pos.y, chunk_pos.x)

\* Tilemap::get_chunk_for_cell(cell): the handle the registry holds for the
\* chunk position of the cell
get_chunk_for_cell(registry, topo, cell, max_chunk_size) ==
    Chunks_get_chunk(registry, into_chunk_pos(topo, cell, max_chunk_size))

\* the place in the host's grid of chunks of the chunk spawned as `entity`:
\* the caller's tile entities come first, then the chunks, row by row
ChunkIndexOf(world, entity) ==
    [row |-> ((entity - PreSpawned - 1) \div Len(world[1])) + 1,
     col |-> ((entity - PreSpawned - 1) % Len(world[1])) + 1]

\* chunk_query.get(entity): the chunk component of the entity, if it has one
chunk_query_get(world, entity) ==
    IF entity > PreSpawned /\ entity <= PreSpawned + (Len(world) * Len(world[1]))
    THEN Some(world[ChunkIndexOf(world, entity).row][ChunkIndexOf(world, entity).col])
    ELSE None

\* the first two statements of every TilemapManager call on a cell:
\* `chunk_query.get(tilemap.get_chunk_for_cell(cell).ok_or(InvalidChunkPos)?)?`
chunk_of_cell(world, registry, cell) ==
    LET handle == get_chunk_for_cell(registry, world[1][1].topo, cell,
                                     world[1][1].chunk_settings.max_chunk_size)
    IN  IF ~handle.some THEN Err("InvalidChunkPos")
        ELSE IF ~chunk_query_get(world, handle.val).some
             THEN Err("ChunkEntityDoesNotExist")
             ELSE Ok(handle.val)

\* the local position the manager hands to the chunk
chunk_cell_of(chunk, cell) ==
    into_chunk_cell(chunk.topo, cell, chunk.chunk_settings.max_chunk_size)

\* TilemapManager::get_tile_data(cell)
TilemapManager_get_tile_data(world, registry, layer, cell) ==
    LET found == chunk_of_cell(world, registry, cell)
    IN  IF found.kind = "Err" THEN found
        ELSE LET chunk == chunk_query_get(world, found.val).val
             IN  IF Chunk_layer_missing(chunk, layer) THEN Panic
                 ELSE LET tile == Chunk_get_tile_data(chunk, layer, chunk_cell_of(chunk, cell))
                      IN  IF tile.some THEN Ok(tile.val)
                                       ELSE Err("TileDataDoesNotExist")

\* TilemapManager::get_tile_entity(cell)
TilemapManager_get_tile_entity(world, registry, layer, cell) ==
    LET found == chunk_of_cell(world, registry, cell)
    IN  IF found.kind = "Err" THEN found
        ELSE LET chunk == chunk_query_get(world, found.val).val
             IN  IF Chunk_layer_missing(chunk, layer) THEN Panic
                 ELSE LET entity == Chunk_get_tile_entity(chunk, layer, chunk_cell_of(chunk, cell))
                      IN  IF entity.some THEN Ok(entity.val)
                                         ELSE Err("TileEntityDoesNotExist")

\* the host's chunk written back: `chunk` is the component of `entity`
WorldSet(world, entity, chunk) ==
    [world EXCEPT ![ChunkIndexOf(world, entity).row][ChunkIndexOf(world, entity).col] = chunk]

\* get_or_spawn_tile_entity spawning an entity on every call
get_or_spawn_always_spawns(world, registry, layer, cell, host) ==
    LET found == chunk_of_cell(world, registry, cell)
    IN  IF found.kind = "Err"
        THEN [result |-> found, world |-> world, commands |-> host]
        ELSE LET chunk == chunk_query_get(world, found.val).val
             IN  IF Chunk_layer_missing(chunk, layer)
                 THEN [result |-> Panic, world |-> world, commands |-> host]
                 ELSE [result |-> Ok(host.spawned + 1),
                       world |-> WorldSet(world, found.val,
                                    Chunk_set_tile_entity(chunk, layer,
                                        chunk_cell_of(chunk, cell), host.spawned + 1)),
                       commands |-> [host EXCEPT !.spawned = @ + 1]]

\* TilemapManager::get_or_spawn_tile_entity(cell): the result, the host's
\* chunks and the host after the call.  `commands.spawn_empty().id()` is the
\* next entity of the host.
get_or_spawn_tile_entity(world, registry, layer, cell, host) ==
    LET found == chunk_of_cell(world, registry, cell)
    IN  IF found.kind = "Err"
        THEN [result |-> found, world |-> world, commands |-> host]
        ELSE LET chunk == chunk_query_get(world, found.val).val
             IN  IF Chunk_layer_missing(chunk, layer)
                 THEN [result |-> Panic, world |-> world, commands |-> host]
                 ELSE LET existing == Chunk_get_tile_entity(chunk, layer,
                                                            chunk_cell_of(chunk, cell))
                      IN  IF existing.some
                          THEN [result |-> Ok(existing.val), world |-> world,
                                commands |-> host]
                          ELSE [result |-> Ok(host.spawned + 1),
                                world |-> WorldSet(world, found.val,
                                             Chunk_set_tile_entity(chunk, layer,
                                                 chunk_cell_of(chunk, cell),
                                                 host.spawned + 1)),
                                commands |-> [host EXCEPT !.spawned = @ + 1]]

\* TilemapManager::despawn_tile_entity(cell): the result and the host after
\* the call; the chunks are read only
despawn_tile_entity(world, registry, layer, cell, host) ==
    LET found == chunk_of_cell(world, registry, cell)
    IN  IF found.kind = "Err" THEN [result |-> found, commands |-> host]
        ELSE LET chunk == chunk_query_get(world, found.val).val
             IN  IF Chunk_layer_missing(chunk, layer)
                 THEN [result |-> Panic, commands |-> host]
                 ELSE LET entity == Chunk_get_tile_entity(chunk, layer,
                                                          chunk_cell_of(chunk, cell))
                      IN  [result |-> Ok(0),
                           commands |-> IF entity.some
                                        THEN [host EXCEPT !.despawned = @ \cup {entity.val}]
                                        ELSE host]

\* sets_tile_data writing on the default layer, whatever layer is active
sets_tile_data_on_default_layer(world, registry, layer, cell, tile_data) ==
    LET found == chunk_of_cell(world, registry, cell)
    IN  IF found.kind = "Err" THEN [result |-> found, world |-> world]
        ELSE LET chunk == chunk_query_get(world, found.val).val
             IN  [result |-> Ok(0),
                  world |-> WorldSet(world, found.val,
                               Chunk_set_tile_data(chunk, DefaultLayer,
                                   chunk_cell_of(chunk, cell), tile_data))]

\* TilemapManager::sets_tile_data(tile_data, cell): the result and the
\* host's chunks after the call
TilemapManager_sets_tile_data(world, registry, layer, cell, tile_data) ==
    LET found == chunk_of_cell(world, registry, cell)
    IN  IF found.kind = "Err" THEN [result |-> found, world |-> world]
        ELSE LET chunk == chunk_query_get(world, found.val).val
             IN  IF Chunk_layer_missing(chunk, layer)
                 THEN [result |-> Panic, world |-> world]
                 ELSE [result |-> Ok(0),
                       world |-> WorldSet(world, found.val,
                                    Chunk_set_tile_data(chunk, layer,
                                        chunk_cell_of(chunk, cell), tile_data))]

\* set_tile_entity writing into the first chunk before it reports that the
\* cell has no chunk
set_tile_entity_writes_before_error(world, registry, layer, cell, entity) ==
    LET found == chunk_of_cell(world, registry, cell)
    IN  IF found.kind = "Err"
        THEN [result |-> found,
              world |-> IF Chunk_layer_missing(world[1][1], layer) THEN world
                        ELSE [world EXCEPT ![1][1] =
                                 Chunk_set_tile_entity(world[1][1], layer,
                                     chunk_cell_of(world[1][1], Cell(0, 0)), entity)]]
        ELSE LET chunk == chunk_query_get(world, found.val).val
             IN  IF Chunk_layer_missing(chunk, layer)
                 THEN [result |-> Panic, world |-> world]
                 ELSE [result |-> Ok(0),
                       world |-> WorldSet(world, found.val,
                                    Chunk_set_tile_entity(chunk, layer,
                                        chunk_cell_of(chunk, cell), entity))]

\* TilemapManager::set_tile_entity(cell, entity): the result and the host's
\* chunks after the call
TilemapManager_set_tile_entity(world, registry, layer, cell, entity) ==
    LET found == chunk_of_cell(world, registry, cell)
    IN  IF found.kind = "Err" THEN [result |-> found, world |-> world]
        ELSE LET chunk == chunk_query_get(world, found.val).val
             IN  IF Chunk_layer_missing(chunk, layer)
                 THEN [result |-> Panic, world |-> world]
                 ELSE [result |-> Ok(0),
                       world |-> WorldSet(world, found.val,
                                    Chunk_set_tile_entity(chunk, layer,
                                        chunk_cell_of(chunk, cell), entity))]

(***************************************************************************)
(* SpecConv: the conversions applied to cells of both signs.               *)
(***************************************************************************)
ChunkSizes == {UVec2(x, y) : x \in 1..MaxChunk, y \in 1..MaxChunk}

InitConv ==
    /\ pc = "conv"
    /\ args \in {[topo |-> t, cell |-> Cell(x, y), max_chunk_size |-> m] :
                    t \in Topologies, x \in (-MaxCoord)..MaxCoord,
                    y \in (-MaxCoord)..MaxCoord, m \in ChunkSizes}
    /\ chunks = <<>>
    /\ nops = 0
    /\ ret = [op |-> "none"]
    /\ HostInit

\* a call of MapData::into_chunk_pos
IntoChunkPos ==
    /\ pc = "conv"
    /\ ret' = [op |-> "into_chunk_pos",
               val |-> into_chunk_pos(args.topo, args.cell, args.max_chunk_size)]
    /\ UNCHANGED <<pc, args, chunks, nops>>
    /\ UNCHANGED <<chunk_entities, commands, layer_index>>

\* a call of ChunkLayer::into_chunk_cell
IntoChunkCell ==
    /\ pc = "conv"
    /\ ret' = [op |-> "into_chunk_cell",
               val |-> into_chunk_cell(args.topo, args.cell, args.max_chunk_size)]
    /\ UNCHANGED <<pc, args, chunks, nops>>
    /\ UNCHANGED <<chunk_entities, commands, layer_index>>

\* a call of hex_offset_from_orientation(orientation) for a hex map
HexOffsetFromOrientation ==
    /\ pc = "conv"
    /\ args.topo = "Hex"
    /\ \E orientation \in HexOrientations :
          ret' = [op |-> "hex_offset_from_orientation", orientation |-> orientation,
                  val |-> hex_offset_from_orientation(orientation)]
    /\ UNCHANGED <<pc, args, chunks, nops, chunk_entities, commands, layer_index>>

\* a call of hex_rotation(orientation) for a hex map
HexRotation ==
    /\ pc = "conv"
    /\ args.topo = "Hex"
    /\ \E orientation \in HexOrientations :
          ret' = [op |-> "hex_rotation", orientation |-> orientation,
                  val |-> hex_rotation(orientation)]
    /\ UNCHANGED <<pc, args, chunks, nops, chunk_entities, commands, layer_index>>

NextConv ==
    \/ IntoChunkPos
    \/ IntoChunkCell
    \/ HexOffsetFromOrientation
    \/ HexRotation

SpecConv == InitConv /\ [][NextConv]_vars

(***************************************************************************)
(* Spec: the builder breaks its main layer into chunks; the manager then   *)
(* reads the map's dimensions.                                             *)
(***************************************************************************)
MapSizes == {UVec2(x, y) : x \in 1..MaxMap, y \in 1..MaxMap}

\* the payload of the tile at (x, y) of a W-wide input: one value per tile
TileAt(x, y, W) == 1 + x + W * y

\* TilemapLayer::Dense(rows, _): rows[y + 1][x + 1]
DenseLayer(map_size) ==
    [kind |-> "Dense",
     data |-> [j \in 1..map_size.y |-> [i \in 1..map_size.x |->
                  TileAt(i - 1, j - 1, map_size.x)]]]

\* TilemapLayer::Sparse(data, map_size, _) with the tiles of `cells` present
SparseLayer(map_size, cells) ==
    [kind |-> "Sparse",
     data |-> [c \in cells |-> TileAt(c.x, c.y, map_size.x)],
     map_size |-> map_size]

CellsOf(map_size) == {Cell(x, y) : x \in 0..(map_size.x - 1), y \in 0..(map_size.y - 1)}

\* the main layers given to the builder: a full dense layer, or a sparse
\* layer holding no tile, one tile or two tiles of the map
MainLayers(map_size) ==
    {DenseLayer(map_size), SparseLayer(map_size, {})}
    \cup {SparseLayer(map_size, {a, b}) : a \in CellsOf(map_size), b \in CellsOf(map_size)}

\* the dense storage of the hex topology is not part of the repository
Builders(map_sizes) ==
    {[topo |-> t, layer |-> l, max_chunk_size |-> m] :
        t \in Topologies, m \in ChunkSizes,
        l \in UNION {MainLayers(ms) : ms \in map_sizes}}

Init ==
    /\ pc = "new"
    /\ args \in {b \in Builders(MapSizes) : b.layer.kind = "Dense" => b.topo = "Square"}
    /\ chunks = <<>>
    /\ nops = 0
    /\ ret = [op |-> "none"]
    /\ HostInit

\* TilemapBuilder::spawn_tilemap with a dense main layer
\* (create_new_chunks_from_layer, the TilemapLayer::Dense arm)
SpawnDense ==
    /\ pc = "new"
    /\ args.layer.kind = "Dense"
    /\ chunks' = break_data_vecs_into_chunks(args.topo, args.layer.data,
                     args.max_chunk_size, [max_chunk_size |-> args.max_chunk_size])
    /\ pc' = "spawned"
    /\ UNCHANGED <<args, nops, ret>>
    /\ UNCHANGED <<chunk_entities, commands, layer_index>>

\* TilemapBuilder::spawn_tilemap with a sparse main layer
\* (create_new_chunks_from_layer, the TilemapLayer::Sparse arm)
SpawnSparse ==
    /\ pc = "new"
    /\ args.layer.kind = "Sparse"
    /\ chunks' = break_hashmap_into_chunks(args.topo, DefaultLayer, args.layer.data,
                     args.layer.map_size, args.max_chunk_size,
                     [max_chunk_size |-> args.max_chunk_size], args.max_chunk_size)
    /\ pc' = "spawned"
    /\ UNCHANGED <<args, nops, ret>>
    /\ UNCHANGED <<chunk_entities, commands, layer_index>>

\* a call of TilemapManager::dimensions on the spawned tilemap
Dimensions ==
    /\ pc = "spawned"
    /\ ret' = [op |-> "dimensions", val |-> dimensions(chunks)]
    /\ UNCHANGED <<pc, args, chunks, nops>>
    /\ UNCHANGED <<chunk_entities, commands, layer_index>>

Next == SpawnDense \/ SpawnSparse \/ Dimensions

Spec == Init /\ [][Next]_vars

(***************************************************************************)
(* SpecLayers, SpecStore: one chunk, built by Chunk::new, then changed by  *)
(* add_layer calls (SpecLayers) or by set_tile_data calls (SpecStore).     *)
(* The chunk is chunks[1][1].                                              *)
(***************************************************************************)
\* MapLayers::Secondary.to_bits() of the two-layer enum of the tests
SecondaryLayer == 2

LayerSizes == {UVec2(x, y) : x \in 1..MaxDim, y \in 1..MaxDim}

\* the payloads given to Chunk::new and Chunk::add_layer: dense rows of any
\* size, an empty sparse map, a sparse map holding one tile
Payloads ==
    {DensePayload([j \in 1..d.y |-> [i \in 1..d.x |-> TileAt(i - 1, j - 1, d.x)]]) :
        d \in LayerSizes}
    \cup {SparsePayload(EmptyMap),
          SparsePayload([c \in {ChunkCell(0, 0)} |-> TileAt(0, 0, 1)])}

\* the positions given to set_tile_data: inside and outside every layer
ChunkCells == {ChunkCell(x, y) : x \in (-1)..MaxDim, y \in (-1)..MaxDim}

InitChunk ==
    /\ pc = "chunk"
    /\ args \in {a \in [topo : Topologies, chunk_size : LayerSizes, tile_data : Payloads] :
                    a.tile_data.kind = "Dense" => a.topo = "Square"}
    /\ chunks = <<<<Chunk_new(args.topo, ChunkPos(0, 0), args.chunk_size, args.tile_data,
                              [max_chunk_size |-> args.chunk_size])>>>>
    /\ nops = 0
    /\ ret = [op |-> "none"]
    /\ HostInit

\* a call of Chunk::add_layer(map_layer, tile_data)
AddLayer ==
    /\ pc = "chunk"
    /\ nops < MaxOps
    /\ \E map_layer \in {DefaultLayer, SecondaryLayer}, tile_data \in Payloads :
          /\ tile_data.kind = "Dense" => args.topo = "Square"
          /\ chunks' = <<<<Chunk_add_layer(chunks[1][1], map_layer, tile_data)>>>>
    /\ nops' = nops + 1
    /\ UNCHANGED <<pc, args, ret>>
    /\ UNCHANGED <<chunk_entities, commands, layer_index>>

NextLayers == AddLayer

SpecLayers == InitChunk /\ [][NextLayers]_vars

\* a call of Chunk::set_tile_data(map_layer, chunk_cell, tile_data) on the
\* default layer
SetTileData ==
    /\ pc = "chunk"
    /\ nops < MaxOps
    /\ \E chunk_cell \in ChunkCells, tile_data \in TileValues :
          chunks' = <<<<Chunk_set_tile_data(chunks[1][1], DefaultLayer, chunk_cell, tile_data)>>>>
    /\ nops' = nops + 1
    /\ UNCHANGED <<pc, args, ret>>
    /\ UNCHANGED <<chunk_entities, commands, layer_index>>

NextStore == SetTileData

SpecStore == InitChunk /\ [][NextStore]_vars

(***************************************************************************)
(* SpecManager: a map is built and spawned, then TilemapManager is called  *)
(* at most twice to get-or-spawn or to despawn the entity of a cell.       *)
(***************************************************************************)
SideSizes == {UVec2(x, y) : x \in 1..MaxSide, y \in 1..MaxSide}

\* the cells given to the manager: inside the map, beside it on every side
ManagerCells == {Cell(x, y) : x \in (-1)..MaxSide, y \in (-1)..MaxSide}

\* the entities the caller spawned before the build
TileEntities == 1..PreSpawned

\* a TilemapLayer with its entity map
WithEntities(layer, entities) ==
    [f \in (DOMAIN layer) \cup {"entities"} |->
        IF f = "entities" THEN entities ELSE layer[f]]

\* no additional layer: an empty layer_info
NoLayers == [id \in {} |-> DenseLayer(UVec2(1, 1))]

\* the tilemap the manager works on: square chunks, a sparse main layer
\* holding the tile of cell (0, 0) and, for that cell, the caller's first
\* entity
InitManager ==
    /\ pc = "managed"
    /\ args \in [topo : Topologies, map_size : SideSizes,
                  max_chunk_size : {m \in SideSizes : m.x = m.y}]
    /\ LET built == spawn_tilemap(args.topo,
                        WithEntities(SparseLayer(args.map_size, {Cell(0, 0)}),
                                     [c \in {Cell(0, 0)} |-> 1]),
                        NoLayers, args.max_chunk_size, PreSpawned)
       IN  /\ chunks = built.chunks
           /\ chunk_entities = built.chunk_entities
           /\ commands = [spawned |-> built.spawned, despawned |-> {}]
    /\ layer_index = DefaultLayer
    /\ nops = 0
    /\ ret = [op |-> "none"]

\* the calling code after one more manager call
AfterCall == IF pc = "managed" THEN "once" ELSE "twice"

\* a call of TilemapManager::get_or_spawn_tile_entity(cell)
GetOrSpawnTileEntity ==
    /\ pc \in {"managed", "once"}
    /\ \E cell \in ManagerCells :
          LET done == get_or_spawn_tile_entity(chunks, chunk_entities, layer_index,
                                               cell, commands)
          IN  /\ chunks' = done.world
              /\ commands' = done.commands
              /\ ret' = [op |-> "get_or_spawn_tile_entity", cell |-> cell,
                         result |-> done.result,
                         requested |-> done.commands.spawned - commands.spawned]
    /\ pc' = AfterCall
    /\ UNCHANGED <<args, nops, chunk_entities, layer_index>>

\* a call of TilemapManager::despawn_tile_entity(cell)
DespawnTileEntity ==
    /\ pc \in {"managed", "once"}
    /\ \E cell \in ManagerCells :
          LET done == despawn_tile_entity(chunks, chunk_entities, layer_index,
                                          cell, commands)
          IN  /\ commands' = done.commands
              /\ ret' = [op |-> "despawn_tile_entity", cell |-> cell,
                         result |-> done.result,
                         entity |-> TilemapManager_get_tile_entity(
                                        chunks, chunk_entities, layer_index, cell)]
    /\ pc' = AfterCall
    /\ UNCHANGED <<args, chunks, nops, chunk_entities, layer_index>>

NextManager == GetOrSpawnTileEntity \/ DespawnTileEntity

SpecManager == InitManager /\ [][NextManager]_vars

(***************************************************************************)
(* SpecRead: a map with one layer is built and spawned, then the manager   *)
(* is pointed at a layer and reads the tile data or the entity of a cell.  *)
(***************************************************************************)
\* the main layer of SpecRead: dense, or sparse holding the tile of cell
\* (0, 0) only; the caller's first entity is attached to cell (0, 0)
ReadLayer(kind, map_size) ==
    WithEntities(IF kind = "Dense" THEN DenseLayer(map_size)
                                   ELSE SparseLayer(map_size, {Cell(0, 0)}),
                 [c \in {Cell(0, 0)} |-> 1])

InitRead ==
    /\ pc = "reading"
    /\ args \in {a \in [topo : Topologies, map_size : SideSizes,
                        max_chunk_size : SideSizes, kind : {"Dense", "Sparse"}] :
                    a.kind = "Dense" => a.topo = "Square"}
    /\ LET built == spawn_tilemap(args.topo, ReadLayer(args.kind, args.map_size),
                                  NoLayers, args.max_chunk_size, PreSpawned)
       IN  /\ chunks = built.chunks
           /\ chunk_entities = built.chunk_entities
           /\ commands = [spawned |-> built.spawned, despawned |-> {}]
    /\ layer_index = DefaultLayer
    /\ nops = 0
    /\ ret = [op |-> "none"]

\* a call of TilemapManager::on_layer(map_layer): the layer of the map, or
\* a layer the map was not given
OnLayer ==
    /\ pc = "reading"
    /\ \E map_layer \in {DefaultLayer, SecondaryLayer} : layer_index' = map_layer
    /\ UNCHANGED <<pc, args, chunks, nops, ret, chunk_entities, commands>>

\* a call of TilemapManager::get_tile_data(cell)
GetTileData ==
    /\ pc = "reading"
    /\ \E cell \in ManagerCells :
          ret' = [op |-> "get_tile_data", layer |-> layer_index, cell |-> cell,
                  result |-> TilemapManager_get_tile_data(
                                 chunks, chunk_entities, layer_index, cell)]
    /\ UNCHANGED <<pc, args, chunks, nops, chunk_entities, commands, layer_index>>

\* a call of TilemapManager::get_tile_entity(cell)
GetTileEntity ==
    /\ pc = "reading"
    /\ \E cell \in ManagerCells :
          ret' = [op |-> "get_tile_entity", layer |-> layer_index, cell |-> cell,
                  result |-> TilemapManager_get_tile_entity(
                                 chunks, chunk_entities, layer_index, cell)]
    /\ UNCHANGED <<pc, args, chunks, nops, chunk_entities, commands, layer_index>>

NextRead == OnLayer \/ GetTileData \/ GetTileEntity

SpecRead == InitRead /\ [][NextRead]_vars

(***************************************************************************)
(* SpecWrite: a map with a main layer and a sparse secondary layer is      *)
(* built and spawned and read once, which changes nothing; the manager is  *)
(* pointed at either layer at any time, and is called once more to write a *)
(* tile, to set, get-or-spawn or despawn a tile entity.                    *)
(***************************************************************************)
\* TilemapManager::layer()
TilemapManager_layer(index) == index

\* the secondary layer of SpecWrite: TilemapLayer::new_sparse_empty
WriteLayerInfo(map_size) ==
    [id \in {SecondaryLayer} |-> WithEntities(SparseLayer(map_size, {}), EmptyMap)]

\* the main layer is dense on the square topology and sparse on the hex
\* topology (the dense storage of the hex topology is not part of the
\* repository); the secondary layer is sparse on both.  The calling code
\* has made its first manager call, a read.
InitWrite ==
    /\ pc = "once"
    /\ args \in {a \in [topo : Topologies, map_size : SideSizes,
                        max_chunk_size : {m \in SideSizes : m.x = m.y},
                        kind : {"Dense", "Sparse"}] :
                    a.kind = "Dense" <=> a.topo = "Square"}
    /\ LET built == spawn_tilemap(args.topo, ReadLayer(args.kind, args.map_size),
                                  WriteLayerInfo(args.map_size), args.max_chunk_size,
                                  PreSpawned)
       IN  /\ chunks = built.chunks
           /\ chunk_entities = built.chunk_entities
           /\ commands = [spawned |-> built.spawned, despawned |-> {}]
    /\ layer_index = DefaultLayer
    /\ nops = 0
    /\ ret = [op |-> "none"]

\* a call of TilemapManager::on_layer(map_layer), at any time
ManagerOnLayer ==
    /\ \E map_layer \in {DefaultLayer, SecondaryLayer} : layer_index' = map_layer
    /\ UNCHANGED <<pc, args, chunks, nops, ret, chunk_entities, commands>>

\* a call of TilemapManager::sets_tile_data(tile_data, cell); the tile
\* written is T::default(), a tile no layer was given
SetsTileData ==
    /\ pc \in {"managed", "once"}
    /\ \E cell \in ManagerCells, tile_data \in {TileDefault} :
          LET done == TilemapManager_sets_tile_data(chunks, chunk_entities,
                                                    layer_index, cell, tile_data)
          IN  /\ chunks' = done.world
              /\ ret' = [op |-> "sets_tile_data", cell |-> cell,
                         tile_data |-> tile_data, result |-> done.result]
    /\ pc' = AfterCall
    /\ UNCHANGED <<args, nops, chunk_entities, commands, layer_index>>

\* a call of TilemapManager::set_tile_entity(cell, entity) with the
\* caller's second entity
SetTileEntity ==
    /\ pc \in {"managed", "once"}
    /\ \E cell \in ManagerCells, entity \in {PreSpawned} :
          LET done == TilemapManager_set_tile_entity(chunks, chunk_entities,
                                                     layer_index, cell, entity)
          IN  /\ chunks' = done.world
              /\ ret' = [op |-> "set_tile_entity", cell |-> cell,
                         entity |-> entity, result |-> done.result]
    /\ pc' = AfterCall
    /\ UNCHANGED <<args, nops, chunk_entities, commands, layer_index>>

NextWrite ==
    \/ ManagerOnLayer
    \/ SetsTileData
    \/ SetTileEntity
    \/ GetOrSpawnTileEntity
    \/ DespawnTileEntity

SpecWrite == InitWrite /\ [][NextWrite]_vars

(***************************************************************************)
(* SpecRows: rows of any lengths are given to the constructors of a dense  *)
(* layer.                                                                  *)
(***************************************************************************)
\* 1..MaxRows rows, each of 0..MaxRow tiles
RowInputs ==
    UNION {{[j \in 1..n |-> [i \in 1..lens[j] |-> TileAt(i - 1, j - 1, MaxRow)]] :
                lens \in [1..n -> 0..MaxRow]} : n \in 1..MaxRows}

InitRows ==
    /\ pc = "rows"
    /\ args \in [tile_data : RowInputs]
    /\ chunks = <<>>
    /\ nops = 0
    /\ ret = [op |-> "none"]
    /\ HostInit

\* what a constructor that panics under `panics` gives back
Constructed(panics) == IF panics THEN Panic ELSE Ok(0)

\* a call of SquareChunkLayerData::new_dense_from_vecs(&tile_data)
NewDenseFromVecs ==
    /\ pc = "rows"
    /\ ret' = [op |-> "new_dense_from_vecs",
               result |-> Constructed(new_dense_from_vecs_panics(args.tile_data))]
    /\ UNCHANGED <<pc, args, chunks, nops, chunk_entities, commands, layer_index>>

\* a call of Chunk::new(chunk_pos, chunk_size, LayerType::Dense(tile_data), ..):
\* SquareChunkLayer::new hands the rows to new_dense_from_vecs
ChunkNewDense ==
    /\ pc = "rows"
    /\ ret' = [op |-> "Chunk::new",
               result |-> Constructed(new_dense_from_vecs_panics(args.tile_data))]
    /\ UNCHANGED <<pc, args, chunks, nops, chunk_entities, commands, layer_index>>

\* a call of TilemapLayer::new_dense_from_vecs(tile_data)
LayerNewDenseFromVecs ==
    /\ pc = "rows"
    /\ ret' = [op |-> "TilemapLayer::new_dense_from_vecs",
               result |-> Constructed(TilemapLayer_new_dense_from_vecs_panics(args.tile_data))]
    /\ UNCHANGED <<pc, args, chunks, nops, chunk_entities, commands, layer_index>>

NextRows == NewDenseFromVecs \/ ChunkNewDense \/ LayerNewDenseFromVecs

SpecRows == InitRows /\ [][NextRows]_vars

(***************************************************************************)
(* SpecIso: one chunk with two layers, built by Chunk::new and             *)
(* Chunk::add_layer, then written at most twice by set_tile_data on either *)
(* layer.  The chunk is chunks[1][1].                                      *)
(***************************************************************************)
\* the payload of a layer of the chunk: dense rows of the chunk's size, or
\* an empty sparse map
IsoPayload(kind, chunk_size) ==
    IF kind = "Dense"
    THEN DensePayload([j \in 1..chunk_size.y |->
                          [i \in 1..chunk_size.x |-> TileAt(i - 1, j - 1, chunk_size.x)]])
    ELSE SparsePayload(EmptyMap)

InitIso ==
    /\ pc = "two_layers"
    /\ args \in {a \in [topo : Topologies, chunk_size : LayerSizes,
                        first : {"Dense", "Sparse"}, second : {"Dense", "Sparse"}] :
                    "Dense" \in {a.first, a.second} => a.topo = "Square"}
    /\ chunks = <<<<Chunk_add_layer(
                       Chunk_new(args.topo, ChunkPos(0, 0), args.chunk_size,
                                 IsoPayload(args.first, args.chunk_size),
                                 [max_chunk_size |-> args.chunk_size]),
                       SecondaryLayer, IsoPayload(args.second, args.chunk_size))>>>>
    /\ nops = 0
    /\ ret = [op |-> "none"]
    /\ HostInit

\* a call of Chunk::set_tile_data(map_layer, chunk_cell, tile_data) on one
\* of the two layers; the tile written is T::default(), a tile neither
\* layer was given
SetLayerTileData ==
    /\ pc \in {"two_layers", "wrote_once"}
    /\ \E map_layer \in {DefaultLayer, SecondaryLayer}, chunk_cell \in ChunkCells,
          tile_data \in {TileDefault} :
          /\ chunks' = <<<<Chunk_set_tile_data(chunks[1][1], map_layer, chunk_cell,
                                               tile_data)>>>>
          /\ ret' = [op |-> "set_tile_data", map_layer |-> map_layer,
                     chunk_cell |-> chunk_cell, tile_data |-> tile_data]
    /\ pc' = IF pc = "two_layers" THEN "wrote_once" ELSE "wrote_twice"
    /\ UNCHANGED <<args, nops, chunk_entities, commands, layer_index>>

NextIso == SetLayerTileData

SpecIso == InitIso /\ [][NextIso]_vars

(***************************************************************************)
(* SpecBuild: the builder is given a main layer and up to two additional   *)
(* layers, each with an entity map, and spawns the tilemap.                *)
(***************************************************************************)
\* the bit of a third layer of the MapLayers enum
ThirdLayer == 4

\* the rows of an additional dense layer: no tile of the main layer
ExtraDense(map_size) ==
    [kind |-> "Dense",
     data |-> [j \in 1..map_size.y |-> [i \in 1..map_size.x |->
                  TileAt(i - 1, j - 1, map_size.x) + (map_size.x * map_size.y)]]]

\* the main layers of SpecBuild: dense, or sparse holding the tile of cell
\* a; the caller's entity 1 is attached to cell b
BuildMain(map_size, a, b) ==
    {WithEntities(DenseLayer(map_size), [c \in {b} |-> 1]),
     WithEntities(SparseLayer(map_size, {a}), [c \in {b} |-> 1])}

\* the additional layers of SpecBuild: none, one, or two, dense (full) or
\* sparse (holding the tile of cell b); the caller's entity 2 is attached to
\* cell a of each
BuildLayerInfo(map_size, a, b) ==
    LET dense == WithEntities(ExtraDense(map_size), [c \in {a} |-> 2])
        sparse == WithEntities(SparseLayer(map_size, {b}), [c \in {a} |-> 2])
    IN  {NoLayers,
         [id \in {SecondaryLayer} |-> dense],
         [id \in {SecondaryLayer} |-> sparse],
         [id \in {SecondaryLayer, ThirdLayer} |->
             IF id = SecondaryLayer THEN dense ELSE sparse],
         [id \in {SecondaryLayer, ThirdLayer} |->
             IF id = SecondaryLayer THEN sparse ELSE dense]}

\* the layers of one builder are of one size (the assert_eq! of add_layer)
BuildInputsOf(ms, a, b) ==
    {[topo |-> t, max_chunk_size |-> m, map_size |-> ms,
      main_layer |-> main, layer_info |-> info] :
         t \in Topologies, m \in SideSizes,
         main \in BuildMain(ms, a, b), info \in BuildLayerInfo(ms, a, b)}

BuildInputs(map_sizes) ==
    UNION {UNION {BuildInputsOf(ms, a, b) : a \in CellsOf(ms), b \in CellsOf(ms)} :
              ms \in map_sizes}

\* the dense storage of the hex topology is not part of the repository
UsesDense(input) ==
    \/ input.main_layer.kind = "Dense"
    \/ \E id \in DOMAIN input.layer_info : input.layer_info[id].kind = "Dense"

InitBuild ==
    /\ pc = "building"
    /\ args \in {i \in BuildInputs(SideSizes) : UsesDense(i) => i.topo = "Square"}
    /\ chunks = <<>>
    /\ nops = 0
    /\ ret = [op |-> "none"]
    /\ chunk_entities = GridInit(0, 0, Placeholder)
    /\ commands = [spawned |-> PreSpawned, despawned |-> {}]
    /\ layer_index = DefaultLayer

\* TilemapBuilder::spawn_tilemap(commands)
SpawnTilemap ==
    /\ pc = "building"
    /\ LET built == spawn_tilemap(args.topo, args.main_layer, args.layer_info,
                                  args.max_chunk_size, commands.spawned)
       IN  /\ chunks' = built.chunks
           /\ chunk_entities' = built.chunk_entities
           /\ commands' = [commands EXCEPT !.spawned = built.spawned]
    /\ pc' = "built"
    /\ UNCHANGED <<args, nops, ret, layer_index>>

NextBuild == SpawnTilemap

SpecBuild == InitBuild /\ [][NextBuild]_vars

(***************************************************************************)
(* SpecBuilder: a builder is made from a main layer, add_layer is called   *)
(* at most twice with layers of any size under the ids of the MapLayers    *)
(* enum, then the tilemap is spawned.  args is the builder.                *)
(***************************************************************************)
\* the layers given to add_layer: dense rows holding no tile of a main
\* layer, or an empty sparse layer (TilemapLayer::new_sparse_empty)
AddedLayers(sizes) ==
    {WithEntities(ExtraDense(ms), EmptyMap) : ms \in sizes}
    \cup {WithEntities(SparseLayer(ms, {}), EmptyMap) : ms \in sizes}

\* the builders: a dense main layer, or a sparse one holding the tile of
\* cell (0, 0); the dense storage of the hex topology is not part of the
\* repository
NewBuilders(sizes) ==
    {TilemapBuilder_new("Square", WithEntities(DenseLayer(ms), EmptyMap), m) :
        ms \in sizes, m \in {c \in sizes : c.x = c.y}}
    \cup {TilemapBuilder_new(t, WithEntities(SparseLayer(ms, {Cell(0, 0)}), EmptyMap), m) :
             t \in Topologies, ms \in sizes, m \in {c \in sizes : c.x = c.y}}

InitBuilder ==
    /\ pc = "builder"
    /\ args \in NewBuilders(SideSizes)
    /\ chunks = <<>>
    /\ nops = 0
    /\ ret = [op |-> "none"]
    /\ chunk_entities = GridInit(0, 0, Placeholder)
    /\ commands = [spawned |-> PreSpawned, despawned |-> {}]
    /\ layer_index = DefaultLayer

\* a call of TilemapBuilder::add_layer(layer_data, map_layer)
BuilderAddLayer ==
    /\ pc \in {"builder", "added_once"}
    /\ \E map_layer \in {DefaultLayer, SecondaryLayer},
          layer_data \in AddedLayers(SideSizes) :
          /\ layer_data.kind = "Dense" => args.topo = "Square"
          /\ IF add_layer_assert_fails(args, layer_data)
             THEN /\ args' = args
                  /\ ret' = [op |-> "add_layer", map_layer |-> map_layer,
                             layer_data |-> layer_data, result |-> Panic]
             ELSE /\ args' = TilemapBuilder_add_layer(args, layer_data, map_layer)
                  /\ ret' = [op |-> "add_layer", map_layer |-> map_layer,
                             layer_data |-> layer_data, result |-> Ok(0)]
    /\ pc' = IF pc = "builder" THEN "added_once" ELSE "added_twice"
    /\ UNCHANGED <<chunks, nops, chunk_entities, commands, layer_index>>

\* TilemapBuilder::spawn_tilemap(commands) of the builder
BuilderSpawn ==
    /\ pc \in {"builder", "added_once", "added_twice"}
    /\ LET built == spawn_tilemap(args.topo, args.main_layer, args.layer_info,
                                  args.max_chunk_size, commands.spawned)
       IN  /\ chunks' = built.chunks
           /\ chunk_entities' = built.chunk_entities
           /\ commands' = [commands EXCEPT !.spawned = built.spawned]
    /\ pc' = "built"
    /\ UNCHANGED <<args, nops, ret, layer_index>>

NextBuilder == BuilderAddLayer \/ BuilderSpawn

SpecBuilder == InitBuilder /\ [][NextBuilder]_vars

(***************************************************************************)
(* SpecSizes: the builder is given its three settings apart, each with a   *)
(* max chunk size of its own: the map data (MapType, into_chunk_pos), the  *)
(* chunk settings (the size the layers are split by) and the chunk         *)
(* conversion settings (kept by every chunk, into_chunk_cell).  One layer  *)
(* of the map's size may be added, then the tilemap is spawned.  args is   *)
(* the builder.                                                            *)
(***************************************************************************)
\* TilemapBuilder::new(layer_data, map_type, chunk_settings,
\* chunk_conversion_settings), the three settings kept apart
TilemapBuilder_new_with_settings(topo, layer_data, map_type, chunk_settings, chunk_conversion_settings) ==
    [topo |-> topo, map_type |-> map_type, chunk_settings |-> chunk_settings,
     chunk_conversion_settings |-> chunk_conversion_settings,
     map_size |-> TilemapLayer_dimensions(layer_data),
     main_layer |-> layer_data,
     layer_info |-> [id \in {} |-> layer_data]]

\* `&mut chunks[chunk_pos.y() as usize][chunk_pos.x() as usize]` panics for
\* one of the cells: its chunk position, taken with the map data's max
\* chunk size, is no index of the grid
index_out_of_bounds(topo, grid, cells, map_type) ==
    \E cell \in cells :
        LET chunk_pos == into_chunk_pos(topo, cell, map_type.max_chunk_size)
        IN  \/ chunk_pos.y < 0 \/ chunk_pos.y >= Len(grid)
            \/ chunk_pos.x < 0 \/ chunk_pos.x >= Len(grid[1])

\* TilemapBuilder::create_new_chunks_from_layer(tilemap_layer,
\* chunk_conversion_settings, max_chunk_size): Ok(chunks), or Panic when an
\* entry of the layer is indexed outside the grid.  The sparse branch is
\* break_hashmap_into_chunks, its two loops apart.
TilemapBuilder_create_new_chunks_from_layer(builder, tilemap_layer, chunk_conversion_settings, max_chunk_size) ==
    LET broken ==
            IF tilemap_layer.kind = "Sparse"
            THEN preallocate_chunks(builder.topo, tilemap_layer.map_size,
                                    max_chunk_size, chunk_conversion_settings)
            ELSE break_data_vecs_into_chunks(builder.topo, tilemap_layer.data,
                                             max_chunk_size, chunk_conversion_settings)
        entries == IF tilemap_layer.kind = "Sparse" THEN DOMAIN tilemap_layer.data ELSE {}
    IN  IF index_out_of_bounds(builder.topo, broken,
                               entries \cup DOMAIN tilemap_layer.entities, builder.map_type)
        THEN Panic
        ELSE Ok(add_entities_to_layer(builder.topo,
                    IF tilemap_layer.kind = "Sparse"
                    THEN insert_entries(builder.topo, broken, DefaultLayer,
                             tilemap_layer.data, entries,
                             builder.map_type.max_chunk_size)
                    ELSE broken,
                    DefaultLayer, tilemap_layer.entities,
                    DOMAIN tilemap_layer.entities, builder.map_type.max_chunk_size))

\* TilemapBuilder::add_layer_to_chunks(map_layer, chunks, tilemap_layer,
\* max_chunk_size): Ok(chunks), or Panic when an entry of the layer is
\* indexed outside the grid
TilemapBuilder_add_layer_to_chunks(builder, map_layer, grid, tilemap_layer, max_chunk_size) ==
    LET added == [cy \in 1..Len(grid) |->
                    [cx \in 1..Len(grid[1]) |->
                        Chunk_add_layer(grid[cy][cx], map_layer,
                            IF tilemap_layer.kind = "Sparse"
                            THEN SparsePayload(EmptyMap)
                            ELSE DensePayload(break_data_vecs_down_into_chunk_data(
                                     tilemap_layer.data, grid[cy][cx].chunk_pos,
                                     max_chunk_size)))]]
        entries == IF tilemap_layer.kind = "Sparse" THEN DOMAIN tilemap_layer.data ELSE {}
    IN  IF index_out_of_bounds(builder.topo, added,
                               entries \cup DOMAIN tilemap_layer.entities, builder.map_type)
        THEN Panic
        ELSE Ok(add_entities_to_layer(builder.topo,
                    IF tilemap_layer.kind = "Sparse"
                    THEN insert_entries(builder.topo, added, map_layer,
                             tilemap_layer.data, entries,
                             builder.map_type.max_chunk_size)
                    ELSE added,
                    map_layer, tilemap_layer.entities,
                    DOMAIN tilemap_layer.entities, builder.map_type.max_chunk_size))

\* the loop `for (id, layer) in layers` of spawn_tilemap over the ids not yet
\* added, begun with the chunks of the main layer or with its panic
RECURSIVE TilemapBuilder_add_layers(_, _, _)
TilemapBuilder_add_layers(builder, made, ids) ==
    IF made.kind = "Panic" \/ ids = {} THEN made
    ELSE LET id == CHOOSE i \in ids : TRUE
         IN  TilemapBuilder_add_layers(builder,
                 TilemapBuilder_add_layer_to_chunks(builder, id, made.val,
                     builder.layer_info[id], builder.chunk_settings.max_chunk_size),
                 ids \ {id})

\* TilemapBuilder::spawn_tilemap(commands) of a builder with its three
\* settings, on a host that has spawned `first` entities: Panic, or Ok of
\* the chunks, the registry and the number of entities spawned
TilemapBuilder_spawn_tilemap(builder, first) ==
    LET made == TilemapBuilder_add_layers(builder,
                    TilemapBuilder_create_new_chunks_from_layer(builder,
                        builder.main_layer, builder.chunk_conversion_settings,
                        builder.chunk_settings.max_chunk_size),
                    DOMAIN builder.layer_info)
    IN  IF made.kind = "Panic" THEN Panic
        ELSE Ok([chunks |-> made.val,
                 chunk_entities |-> new_chunk_entity_grid(
                                        spawned_chunk_entities(made.val, first)),
                 spawned |-> first + (Len(made.val) * Len(made.val[1])) + 1])

\* the settings: square max chunk sizes
Settings == {[max_chunk_size |-> m] : m \in {c \in SideSizes : c.x = c.y}}

\* the last cell of a map
LastCell(map_size) == Cell(map_size.x - 1, map_size.y - 1)

\* the layers given to the builder: dense rows (tiles: main layer or not),
\* or a sparse layer holding the tile of the last cell of the map; no tile
\* entities
SizedLayers(map_size, main) ==
    {WithEntities(IF main THEN DenseLayer(map_size) ELSE ExtraDense(map_size), EmptyMap),
     WithEntities(SparseLayer(map_size, {LastCell(map_size)}), EmptyMap)}

\* the dense storage of the hex topology is not part of the repository
InitSizes ==
    /\ pc = "sized"
    /\ \E topo \in Topologies, map_size \in SideSizes, map_type \in Settings,
          chunk_settings \in Settings, chunk_conversion_settings \in Settings :
          \E layer_data \in SizedLayers(map_size, TRUE) :
             /\ layer_data.kind = "Dense" => topo = "Square"
             /\ args = TilemapBuilder_new_with_settings(topo, layer_data, map_type,
                           chunk_settings, chunk_conversion_settings)
    /\ chunks = <<>>
    /\ nops = 0
    /\ ret = [op |-> "none"]
    /\ chunk_entities = GridInit(0, 0, Placeholder)
    /\ commands = [spawned |-> PreSpawned, despawned |-> {}]
    /\ layer_index = DefaultLayer

\* a call of TilemapBuilder::add_layer(layer_data, MapLayers::Secondary)
\* with a layer of the map's size, which its assert_eq! accepts
SizesAddLayer ==
    /\ pc = "sized"
    /\ \E layer_data \in SizedLayers(args.map_size, FALSE) :
          /\ layer_data.kind = "Dense" => args.topo = "Square"
          /\ ~add_layer_assert_fails(args, layer_data)
          /\ args' = TilemapBuilder_add_layer(args, layer_data, SecondaryLayer)
    /\ pc' = "layered"
    /\ UNCHANGED <<chunks, nops, ret, chunk_entities, commands, layer_index>>

\* TilemapBuilder::spawn_tilemap(commands) of the builder
SizesSpawn ==
    /\ pc \in {"sized", "layered"}
    /\ LET built == TilemapBuilder_spawn_tilemap(args, commands.spawned)
       IN  IF built.kind = "Panic"
           THEN /\ pc' = "panicked"
                /\ UNCHANGED <<chunks, chunk_entities, commands>>
           ELSE /\ pc' = "built"
                /\ chunks' = built.val.chunks
                /\ chunk_entities' = built.val.chunk_entities
                /\ commands' = [commands EXCEPT !.spawned = built.val.spawned]
    /\ UNCHANGED <<args, nops, ret, layer_index>>

NextSizes == SizesAddLayer \/ SizesSpawn

SpecSizes == InitSizes /\ [][NextSizes]_vars

(***************************************************************************)
(* SpecDense: the constructors of a dense layer from a width and a height. *)
(***************************************************************************)
InitDense ==
    /\ pc = "sizes"
    /\ args \in [w : 1..MaxMap, h : 1..MaxMap, value : {TileDefault} \cup TileValues]
    /\ chunks = <<>>
    /\ nops = 0
    /\ ret = [op |-> "none"]
    /\ HostInit

\* a call of SquareChunkLayerData::new_dense_default(w, h)
NewDenseDefault ==
    /\ pc = "sizes"
    /\ ret' = [op |-> "new_dense_default", val |-> new_dense_default(args.w, args.h)]
    /\ UNCHANGED <<pc, args, chunks, nops, chunk_entities, commands, layer_index>>

\* a call of SquareChunkLayerData::new_dense_uniform(w, h, value)
NewDenseUniform ==
    /\ pc = "sizes"
    /\ ret' = [op |-> "new_dense_uniform",
               val |-> new_dense_uniform(args.w, args.h, args.value)]
    /\ UNCHANGED <<pc, args, chunks, nops, chunk_entities, commands, layer_index>>

\* a call of TilemapLayer::new_dense_default(w, h)
LayerNewDenseDefault ==
    /\ pc = "sizes"
    /\ ret' = [op |-> "TilemapLayer::new_dense_default",
               val |-> TilemapLayer_new_dense_default(args.w, args.h)]
    /\ UNCHANGED <<pc, args, chunks, nops, chunk_entities, commands, layer_index>>

\* a call of TilemapLayer::new_dense_uniform(w, h, value)
LayerNewDenseUniform ==
    /\ pc = "sizes"
    /\ ret' = [op |-> "TilemapLayer::new_dense_uniform",
               val |-> TilemapLayer_new_dense_uniform(args.w, args.h, args.value)]
    /\ UNCHANGED <<pc, args, chunks, nops, chunk_entities, commands, layer_index>>

NextDense ==
    \/ NewDenseDefault
    \/ NewDenseUniform
    \/ LayerNewDenseDefault
    \/ LayerNewDenseUniform

SpecDense == InitDense /\ [][NextDense]_vars

(***************************************************************************)
(* Properties.                                                             *)
(***************************************************************************)
\* the declared size of the main layer the builder was given
MapSize ==
    IF args.layer.kind = "Dense"
    THEN UVec2(Len(args.layer.data[1]), Len(args.layer.data))
    ELSE args.layer.map_size

\* ceil(a / b) and floor(a / b) over the integers, b > 0
CeilDiv(a, b) == (a + b - 1) \div b
FloorDiv(a, b) == a \div b

\* the sub-rectangle of the map that belongs to the chunk at (cx, cy)
ClippedSize(cx, cy) ==
    UVec2(Min(args.max_chunk_size.x, MapSize.x - cx * args.max_chunk_size.x),
          Min(args.max_chunk_size.y, MapSize.y - cy * args.max_chunk_size.y))

\* the tile read back for a cell: its chunk by into_chunk_pos, its local
\* position by into_chunk_cell, the default layer
ReadBack(cell) ==
    LET found == get_chunk(chunks, into_chunk_pos(args.topo, cell, args.max_chunk_size))
    IN  IF found.some
        THEN Chunk_get_tile_data(found.val, DefaultLayer,
                 into_chunk_cell(args.topo, cell, args.max_chunk_size))
        ELSE [some |-> FALSE, missing_chunk |-> TRUE]

\* C1: dense round trip.  After break_data_vecs_into_chunks every tile (x, y)
\* of the W x H input is read back as rows[y][x] from the chunk at
\* into_chunk_pos(Cell(x, y)), default layer, at into_chunk_cell(Cell(x, y)).
C1_DenseRoundTrip ==
    (pc = "spawned" /\ args.layer.kind = "Dense") =>
        \A cell \in CellsOf(MapSize) :
            ReadBack(cell) = Some(args.layer.data[cell.y + 1][cell.x + 1])

\* C1 witness: a dense map broken into several chunks on both axes, its
\* width and height not multiples of the chunk size
C1_Witness ==
    /\ pc = "spawned" /\ args.layer.kind = "Dense"
    /\ Len(chunks) > 1 /\ Len(chunks[1]) > 1
    /\ MapSize.x % args.max_chunk_size.x # 0
    /\ MapSize.y % args.max_chunk_size.y # 0

\* C2: sparse chunk sizing.  Every chunk break_hashmap_into_chunks allocates
\* at (cx, cy) declares the dimensions of the dense clipping formula,
\* (min(mcs.x, W - cx * mcs.x), min(mcs.y, H - cy * mcs.y)).
C2_SparseChunkSizing ==
    (pc = "spawned" /\ args.layer.kind = "Sparse") =>
        \A cy \in 1..Len(chunks) : \A cx \in 1..Len(chunks[cy]) :
            Chunk_get_chunk_dimensions(chunks[cy][cx]) = ClippedSize(cx - 1, cy - 1)

\* C3: dimension reconstruction.  TilemapManager::dimensions() returns the
\* map size (W, H) for a dense or a sparse main layer of any size.
C3_DimensionsAreMapSize ==
    ret.op = "dimensions" => ret.val = MapSize

\* C4: flooring chunk position.  into_chunk_pos returns
\* (floor(cell.x / mcs.x), floor(cell.y / mcs.y)) for every cell, negative
\* coordinates included, square and hex.
C4_FlooringChunkPos ==
    ret.op = "into_chunk_pos" =>
        ret.val = ChunkPos(FloorDiv(args.cell.x, args.max_chunk_size.x),
                           FloorDiv(args.cell.y, args.max_chunk_size.y))

\* C5: local position range.  into_chunk_cell returns
\* cell - chunk_position * max_chunk_size component-wise and both components
\* lie in [0, max_chunk_size), negative coordinates included.
C5_LocalPositionRange ==
    ret.op = "into_chunk_cell" =>
        LET chunk_position == into_chunk_pos(args.topo, args.cell, args.max_chunk_size)
        IN  /\ ret.val.x = args.cell.x - chunk_position.x * args.max_chunk_size.x
            /\ ret.val.y = args.cell.y - chunk_position.y * args.max_chunk_size.y
            /\ ret.val.x >= 0 /\ ret.val.x < args.max_chunk_size.x
            /\ ret.val.y >= 0 /\ ret.val.y < args.max_chunk_size.y

\* the local positions of a chunk: [0, max_chunk_size) on each axis
LocalPositions ==
    {ChunkCell(x, y) : x \in 0..(args.max_chunk_size.x - 1),
                       y \in 0..(args.max_chunk_size.y - 1)}

\* the cells of the input that belong to the chunk at chunk_pos
CellsIn(chunk_pos) ==
    {cell \in DOMAIN args.layer.data :
        into_chunk_pos(args.topo, cell, args.max_chunk_size) = chunk_pos}

\* C6: sparse round trip.  After break_hashmap_into_chunks every (cell, value)
\* entry of the input is read back as value from the chunk at
\* into_chunk_pos(cell) at into_chunk_cell(cell); every other position of
\* every chunk reads as None, and a chunk stores no entry besides those of
\* its cells.
C6_SparseRoundTrip ==
    (pc = "spawned" /\ args.layer.kind = "Sparse") =>
        /\ \A cell \in DOMAIN args.layer.data :
              ReadBack(cell) = Some(args.layer.data[cell])
        /\ \A cy \in 1..Len(chunks) : \A cx \in 1..Len(chunks[cy]) :
              LET mine == {into_chunk_cell(args.topo, cell, args.max_chunk_size) :
                              cell \in CellsIn(ChunkPos(cx - 1, cy - 1))}
              IN  /\ \A pos \in LocalPositions \ mine :
                        Chunk_get_tile_data(chunks[cy][cx], DefaultLayer, pos) = None
                  /\ entry_count(chunks[cy][cx].data[DefaultLayer].layer_type_data)
                        = Cardinality(mine)

\* C6 witness: two tiles were given and they went to two different chunks
C6_Witness ==
    /\ pc = "spawned" /\ args.layer.kind = "Sparse"
    /\ \E a \in DOMAIN args.layer.data, b \in DOMAIN args.layer.data :
          /\ into_chunk_pos(args.topo, a, args.max_chunk_size)
                # into_chunk_pos(args.topo, b, args.max_chunk_size)
          /\ into_chunk_cell(args.topo, a, args.max_chunk_size) # ChunkCell(0, 0)

\* C7: chunk-count formula.  The dense and the sparse decomposition return
\* ceil(H / mcs.y) rows of ceil(W / mcs.x) chunks, and the chunk stored at
\* grid[cy][cx] has chunk_pos = (cx, cy).
C7_ChunkCount ==
    pc = "spawned" =>
        /\ Len(chunks) = CeilDiv(MapSize.y, args.max_chunk_size.y)
        /\ \A cy \in 1..Len(chunks) :
              /\ Len(chunks[cy]) = CeilDiv(MapSize.x, args.max_chunk_size.x)
              /\ \A cx \in 1..Len(chunks[cy]) :
                    chunks[cy][cx].chunk_pos = ChunkPos(cx - 1, cy - 1)

\* C7 witness: an empty sparse input produced a grid of several rows and
\* columns for a map that is not a multiple of the chunk size
C7_Witness ==
    /\ pc = "spawned" /\ args.layer.kind = "Sparse"
    /\ DOMAIN args.layer.data = {}
    /\ Len(chunks) > 1 /\ Len(chunks[1]) > 1 /\ Len(chunks[1]) # Len(chunks)
    /\ MapSize.x % args.max_chunk_size.x # 0

\* C8: dense edge chunks.  After break_data_vecs_into_chunks the chunk at
\* (cx, cy) reports get_chunk_dimensions() =
\* (min(mcs.x, W - cx * mcs.x), min(mcs.y, H - cy * mcs.y)) as (width, height)
\* and stores exactly that many tiles.
C8_DenseEdgeChunks ==
    (pc = "spawned" /\ args.layer.kind = "Dense") =>
        \A cy \in 1..Len(chunks) : \A cx \in 1..Len(chunks[cy]) :
            /\ Chunk_get_chunk_dimensions(chunks[cy][cx]) = ClippedSize(cx - 1, cy - 1)
            /\ entry_count(chunks[cy][cx].data[DefaultLayer].layer_type_data)
                  = ClippedSize(cx - 1, cy - 1).x * ClippedSize(cx - 1, cy - 1).y

\* C8 witness: the last column of chunks is narrower than max_chunk_size and
\* the last row is as high as max_chunk_size
C8_Witness ==
    /\ pc = "spawned" /\ args.layer.kind = "Dense"
    /\ Len(chunks[1]) > 1
    /\ Chunk_get_chunk_dimensions(chunks[Len(chunks)][Len(chunks[1])]).x
          < args.max_chunk_size.x
    /\ Chunk_get_chunk_dimensions(chunks[Len(chunks)][Len(chunks[1])]).y
          = args.max_chunk_size.y
    /\ args.max_chunk_size.x # args.max_chunk_size.y

\* the layers of the chunk of SpecLayers and SpecStore
TheChunk == chunks[1][1]
LayerDimensions(chunk, l) == get_dimensions(chunk.data[l].layer_type_data)

\* C9, as claimed: after Chunk::new and any add_layer calls every layer of
\* the chunk reports the dimensions the chunk declares through layer 1, the
\* supplied data having no say.
C9_LayersHaveChunkDimensions ==
    pc = "chunk" =>
        \A l \in DOMAIN TheChunk.data :
            LayerDimensions(TheChunk, l) = Chunk_get_chunk_dimensions(TheChunk)

\* C9, amended: a step that is add_layer(l, p) leaves every other layer as
\* it was; the layer l it inserts reports the dimensions the chunk declared
\* before the call when p is sparse, and the row length and row count of the
\* supplied rows when p is dense.
C9_AddLayerDimensions ==
    [][\A l \in {DefaultLayer, SecondaryLayer}, p \in Payloads :
          (/\ pc = "chunk" /\ nops' = nops + 1
           /\ p.kind = "Dense" => args.topo = "Square"
           /\ chunks' = <<<<Chunk_add_layer(TheChunk, l, p)>>>>)
          => /\ \A k \in (DOMAIN TheChunk.data) \ {l} :
                   chunks'[1][1].data[k] = TheChunk.data[k]
             /\ DOMAIN chunks'[1][1].data = (DOMAIN TheChunk.data) \cup {l}
             /\ LayerDimensions(chunks'[1][1], l) =
                   IF p.kind = "Dense"
                   THEN UVec2(Len(p.rows[1]), Len(p.rows))
                   ELSE Chunk_get_chunk_dimensions(TheChunk)]_vars

\* C9 witness: a dense secondary layer whose dimensions are not the chunk's,
\* next to a chunk whose layer 1 is dense and differs from max_chunk_size
C9_Witness ==
    /\ pc = "chunk" /\ nops > 0
    /\ SecondaryLayer \in DOMAIN TheChunk.data
    /\ TheChunk.data[SecondaryLayer].layer_type_data.kind = "Dense"
    /\ LayerDimensions(TheChunk, SecondaryLayer) # Chunk_get_chunk_dimensions(TheChunk)
    /\ Chunk_get_chunk_dimensions(TheChunk) # TheChunk.chunk_settings.max_chunk_size

\* C10: storage size invariant.  After construction and any set_tile_data
\* calls a dense layer holds exactly width * height entries and a sparse
\* layer at most width * height, (width, height) being its get_dimensions().
C10_StorageSize ==
    pc = "chunk" =>
        \A l \in DOMAIN TheChunk.data :
            LET layer_data == TheChunk.data[l].layer_type_data
                size == get_dimensions(layer_data)
            IN  IF layer_data.kind = "Dense"
                THEN entry_count(layer_data) = size.x * size.y
                ELSE entry_count(layer_data) <= size.x * size.y

\* C11: after despawn_tile_entity(cell) succeeds on a cell that had an
\* entity on the active layer, the host was told to release that entity and
\* get_tile_entity(cell) on the same layer returns TileEntityDoesNotExist
C11_DespawnClearsAssociation ==
    (/\ ret.op = "despawn_tile_entity"
     /\ ret.result.kind = "Ok"
     /\ ret.entity.kind = "Ok")
    => /\ ret.entity.val \in commands.despawned
       /\ TilemapManager_get_tile_entity(chunks, chunk_entities, layer_index, ret.cell)
            = Err("TileEntityDoesNotExist")


\* C12: for every cell and every active layer, a layer the map's chunks
\* were never given included, get_tile_data and get_tile_entity return a
\* value or an error and never panic
C12_LookupsNeverPanic ==
    ret.op \in {"get_tile_data", "get_tile_entity"} => ret.result.kind # "Panic"

\* the cell lies outside the chunk grid: a negative coordinate, or a
\* coordinate >= chunk_count * max_chunk_size on its axis
OutsideChunkGrid(cell) ==
    \/ cell.x < 0
    \/ cell.y < 0
    \/ cell.x >= chunk_counts(chunks).x * args.max_chunk_size.x
    \/ cell.y >= chunk_counts(chunks).y * args.max_chunk_size.y

\* the main layer of SpecRead was given a tile for the cell
HasInput(cell) ==
    IF args.kind = "Dense" THEN cell \in CellsOf(args.map_size)
                           ELSE cell = Cell(0, 0)

\* C13: on a layer of the map, get_tile_data returns InvalidChunkPos for
\* every cell outside the chunk grid, and TileDataDoesNotExist for a cell
\* whose chunk exists and whose position holds no data
C13_ErrorClassification ==
    (ret.op = "get_tile_data" /\ ret.layer = DefaultLayer)
    => /\ OutsideChunkGrid(ret.cell) => ret.result = Err("InvalidChunkPos")
       /\ (~OutsideChunkGrid(ret.cell) /\ ~HasInput(ret.cell))
             => ret.result = Err("TileDataDoesNotExist")


\* some row is not as long as row 0
Ragged(tile_data) == \E j \in 1..Len(tile_data) : Len(tile_data[j]) # Len(tile_data[1])

\* C14: rows in which some row's length differs from the length of row 0
\* are rejected by every constructor of a dense layer, also when the number
\* of tiles equals rows.len() * rows[0].len(); rows of one length are taken
C14_RaggedRejected ==
    ret.op \in {"new_dense_from_vecs", "Chunk::new", "TilemapLayer::new_dense_from_vecs"}
    => (Ragged(args.tile_data) <=> ret.result = Panic)

\* ragged rows with the tile count of a rectangle, rejected
C14_Witness ==
    /\ ret.op = "new_dense_from_vecs"
    /\ Ragged(args.tile_data)
    /\ ~tile_count_assert_fails(args.tile_data)
    /\ ret.result = Panic


\* C15: a set_tile_data on one layer of a chunk changes what get_tile_data
\* returns on no other layer of the chunk, at the written position or at
\* any other, whatever the storage kinds of the two layers
C15_LayerIsolation ==
    [][(pc' # pc /\ ret'.op = "set_tile_data")
       => \A b \in (DOMAIN chunks[1][1].data) \ {ret'.map_layer} :
             \A c \in ChunkCells :
                Chunk_get_tile_data(chunks'[1][1], b, c)
                   = Chunk_get_tile_data(chunks[1][1], b, c)]_vars

\* the second write landed on its layer, and the other layer, of the other
\* storage kind, reads something else at that position
C15_Witness ==
    /\ pc = "wrote_twice"
    /\ ret.op = "set_tile_data"
    /\ args.first = "Dense" /\ args.second = "Sparse"
    /\ Chunk_get_tile_data(TheChunk, ret.map_layer, ret.chunk_cell) = Some(ret.tile_data)
    /\ \E b \in (DOMAIN TheChunk.data) \ {ret.map_layer} :
          Chunk_get_tile_data(TheChunk, b, ret.chunk_cell) # Some(ret.tile_data)


\* the layer the builder was given under id l
InputLayer(l) == IF l = DefaultLayer THEN args.main_layer ELSE args.layer_info[l]

\* the layers the builder was given
InputLayers == {DefaultLayer} \cup DOMAIN args.layer_info

\* the chunk of the built map that cell c resolves to
ChunkOf(c) ==
    LET chunk_pos == into_chunk_pos(args.topo, c, args.max_chunk_size)
    IN  chunks[chunk_pos.y + 1][chunk_pos.x + 1]

\* the tile layer l was given for cell c
InputTile(l, c) ==
    IF InputLayer(l).kind = "Dense"
    THEN Some(InputLayer(l).data[c.y + 1][c.x + 1])
    ELSE IF c \in DOMAIN InputLayer(l).data THEN Some(InputLayer(l).data[c]) ELSE None

\* C16: after the build from a main layer and additional layers, for every
\* layer L and every cell c inside the map, reading (L, c) from the chunk at
\* into_chunk_pos(c) returns L's input value at c, or nothing when L is
\* sparse and has no entry at c
C16_MultiLayerBuild ==
    pc = "built"
    => \A l \in InputLayers, c \in CellsOf(args.map_size) :
          Chunk_get_tile_data(ChunkOf(c), l,
              into_chunk_cell(args.topo, c, args.max_chunk_size)) = InputTile(l, c)

\* a map of several chunks built from a sparse main layer, a dense and a
\* sparse additional layer
C16_Witness ==
    /\ pc = "built"
    /\ Len(chunks) > 1 /\ Len(chunks[1]) > 1
    /\ args.main_layer.kind = "Sparse"
    /\ DOMAIN args.layer_info = {SecondaryLayer, ThirdLayer}
    /\ args.layer_info[SecondaryLayer].kind = "Dense"
    /\ Chunk_get_tile_data(chunks[2][2], SecondaryLayer, ChunkCell(0, 0))
          = InputTile(SecondaryLayer, Cell(args.max_chunk_size.x, args.max_chunk_size.y))


\* get_tile_entity(cell) on the active layer, before and after a step
EntityBefore(cell) ==
    TilemapManager_get_tile_entity(chunks, chunk_entities, layer_index, cell)
EntityAfter(cell) ==
    TilemapManager_get_tile_entity(chunks', chunk_entities', layer_index', cell)

\* C17: get_or_spawn_tile_entity(cell) asks the host for a new entity and
\* stores it only when the active layer holds no entity for the cell; when
\* it holds one, the call returns it and asks for nothing.  After the call
\* get_tile_entity(cell) returns the entity returned, and so does a second
\* get_or_spawn_tile_entity(cell), which asks for nothing.
C17_GetOrSpawn ==
    [][(pc' # pc /\ ret'.op = "get_or_spawn_tile_entity" /\ ret'.result.kind = "Ok")
       => /\ EntityBefore(ret'.cell).kind = "Ok"
                => /\ ret'.result = EntityBefore(ret'.cell)
                   /\ commands' = commands
                   /\ chunks' = chunks
          /\ EntityBefore(ret'.cell).kind # "Ok"
                => /\ commands'.spawned = commands.spawned + 1
                   /\ ret'.result = Ok(commands'.spawned)
          /\ EntityAfter(ret'.cell) = ret'.result
          /\ LET again == get_or_spawn_tile_entity(chunks', chunk_entities',
                                                   layer_index', ret'.cell, commands')
             IN  /\ again.result = ret'.result
                 /\ again.commands = commands'
                 /\ again.world = chunks']_vars

\* two calls on one cell: the first spawned an entity, the second returned it
C17_Witness ==
    /\ pc = "twice"
    /\ ret.op = "get_or_spawn_tile_entity"
    /\ ret.result = Ok(PreSpawned + (Len(chunks) * Len(chunks[1])) + 2)
    /\ ret.requested = 0
    /\ commands.spawned = ret.result.val
    /\ TilemapManager_get_tile_entity(chunks, chunk_entities, layer_index, ret.cell)
          = ret.result


\* C18: once the build completes, the registry grid has
\* ceil(map_size / max_chunk_size) positions per axis, every position holds
\* the handle of a spawned chunk, no placeholder, and
\* Chunks::get_chunk(ChunkPos(cx, cy)) is the handle of the chunk whose
\* chunk_pos is (cx, cy)
C18_RegistryComplete ==
    pc = "built"
    => /\ chunk_entities.cols = CeilDiv(args.map_size.x, args.max_chunk_size.x)
       /\ chunk_entities.rows = CeilDiv(args.map_size.y, args.max_chunk_size.y)
       /\ Len(chunk_entities.data) = chunk_entities.rows * chunk_entities.cols
       /\ \A cx \in 0..(chunk_entities.cols - 1), cy \in 0..(chunk_entities.rows - 1) :
             LET handle == Chunks_get_chunk(chunk_entities, ChunkPos(cx, cy))
             IN  /\ handle.some
                 /\ handle.val # Placeholder
                 /\ chunk_query_get(chunks, handle.val).some
                 /\ chunk_query_get(chunks, handle.val).val.chunk_pos = ChunkPos(cx, cy)

\* a registry of two rows and two columns, its four handles distinct
C18_Witness ==
    /\ pc = "built"
    /\ chunk_entities.rows = 2 /\ chunk_entities.cols = 2
    /\ Cardinality({chunk_entities.data[k] : k \in 1..4}) = 4
    /\ chunk_query_get(chunks,
           Chunks_get_chunk(chunk_entities, ChunkPos(1, 0)).val).val.chunk_pos
          = ChunkPos(1, 0)

\* the entity layer l was given for cell c
InputEntity(l, c) ==
    IF c \in DOMAIN InputLayer(l).entities THEN Some(InputLayer(l).entities[c]) ELSE None

\* C19: for every layer given to the builder and every (cell, entity) pair
\* of its entity map, after the build get_tile_entity on that layer at
\* into_chunk_cell(cell) in the chunk at into_chunk_pos(cell) returns the
\* entity; the positions with no pair return None and hold nothing
C19_EntitiesAttached ==
    pc = "built"
    => \A l \in InputLayers :
          /\ \A c \in CellsOf(args.map_size) :
                Chunk_get_tile_entity(ChunkOf(c), l,
                    into_chunk_cell(args.topo, c, args.max_chunk_size))
                   = InputEntity(l, c)
          /\ \A cy \in 1..Len(chunks), cx \in 1..Len(chunks[1]) :
                DOMAIN chunks[cy][cx].data[l].tile_entities
                   = {u64_key(into_chunk_cell(args.topo, c, args.max_chunk_size)) :
                         c \in {d \in DOMAIN InputLayer(l).entities :
                                   into_chunk_pos(args.topo, d, args.max_chunk_size)
                                      = ChunkPos(cx - 1, cy - 1)}}

\* a map of several chunks; an additional layer's entity is attached in a
\* chunk other than chunk (0, 0), on that layer only
C19_Witness ==
    /\ pc = "built"
    /\ SecondaryLayer \in DOMAIN args.layer_info
    /\ \E c \in DOMAIN args.layer_info[SecondaryLayer].entities :
          /\ ChunkOf(c).chunk_pos # ChunkPos(0, 0)
          /\ Chunk_get_tile_entity(ChunkOf(c), SecondaryLayer,
                 into_chunk_cell(args.topo, c, args.max_chunk_size)) = Some(2)
          /\ Chunk_get_tile_entity(ChunkOf(c), DefaultLayer,
                 into_chunk_cell(args.topo, c, args.max_chunk_size)) = None


\* C20: new_dense_default(w, h) and new_dense_uniform(w, h, value) give a
\* dense layer whose get_dimensions() is (w, h) and whose get_tile_data at
\* every (x, y) of [0, w) x [0, h) is the default, respectively the value,
\* for every w and h
C20_DenseConstructors ==
    ret.op \in {"new_dense_default", "new_dense_uniform"}
    => /\ get_dimensions(ret.val) = UVec2(args.w, args.h)
       /\ \A x \in 0..(args.w - 1), y \in 0..(args.h - 1) :
             get_tile_data("Square", ret.val, ChunkCell(x, y))
                = Some(IF ret.op = "new_dense_default" THEN TileDefault ELSE args.value)

\* C21: TilemapLayer::new_dense_default(w, h) and
\* TilemapLayer::new_dense_uniform(w, h, value) give a dense layer of h rows
\* of w tiles, every tile the default, respectively the value, so that
\* dimensions() returns (w, h)
C21_LayerDenseConstructors ==
    ret.op \in {"TilemapLayer::new_dense_default", "TilemapLayer::new_dense_uniform"}
    => /\ ret.val.kind = "Dense"
       /\ Len(ret.val.data) = args.h
       /\ \A j \in 1..Len(ret.val.data) :
             ret.val.data[j] =
                [i \in 1..args.w |->
                    IF ret.op = "TilemapLayer::new_dense_default"
                    THEN TileDefault ELSE args.value]
       /\ TilemapLayer_dimensions(ret.val) = UVec2(args.w, args.h)

\* C22: the map size of a builder is the size of the main layer given to
\* new.  add_layer fails on its assertion whenever the dimensions of the
\* layer differ from the map size, and the layer is then not registered;
\* when they are equal the layer is registered under its layer id.
C22_AddLayerSizeCheck ==
    [][(pc' # pc /\ ret'.op = "add_layer")
       => /\ args.map_size = TilemapLayer_dimensions(args.main_layer)
          /\ TilemapLayer_dimensions(ret'.layer_data) # args.map_size
                => /\ ret'.result = Panic
                   /\ args' = args
          /\ TilemapLayer_dimensions(ret'.layer_data) = args.map_size
                => /\ ret'.result = Ok(0)
                   /\ DOMAIN args'.layer_info
                         = (DOMAIN args.layer_info) \cup {ret'.map_layer}
                   /\ args'.layer_info[ret'.map_layer] = ret'.layer_data
                   /\ \A id \in (DOMAIN args.layer_info) \ {ret'.map_layer} :
                         args'.layer_info[id] = args.layer_info[id]]_vars

\* a layer was registered, then a layer as wide as the map and of another
\* height was rejected
C22_Witness ==
    /\ pc = "added_twice"
    /\ ret.op = "add_layer" /\ ret.result = Panic
    /\ TilemapLayer_dimensions(ret.layer_data).x = args.map_size.x
    /\ DOMAIN args.layer_info = {SecondaryLayer}

\* the layers of every chunk other than layer l are what they were
OtherLayersUnchanged(l) ==
    \A cy \in 1..Len(chunks), cx \in 1..Len(chunks[1]) :
        /\ DOMAIN chunks'[cy][cx].data = DOMAIN chunks[cy][cx].data
        /\ \A k \in (DOMAIN chunks[cy][cx].data) \ {l} :
              chunks'[cy][cx].data[k] = chunks[cy][cx].data[k]

\* C23: a fresh manager reports the default layer from layer().  Only
\* on_layer changes what layer() returns, to the layer it is given, and it
\* changes nothing else; every other call leaves layer() as it was and
\* works on that layer: it changes no other layer of any chunk, and the
\* entity it sets or returns is the one get_tile_entity then returns on
\* that layer.
C23_ActiveLayer ==
    /\ TilemapManager_layer(layer_index) = DefaultLayer
    /\ [][/\ TilemapManager_layer(layer_index') # TilemapManager_layer(layer_index)
                => UNCHANGED <<pc, args, chunks, nops, ret, chunk_entities, commands>>
          /\ pc' # pc
                => /\ TilemapManager_layer(layer_index') = TilemapManager_layer(layer_index)
                   /\ OtherLayersUnchanged(TilemapManager_layer(layer_index))
                   /\ (ret'.op = "set_tile_entity" /\ ret'.result.kind = "Ok")
                         => EntityAfter(ret'.cell) = Ok(ret'.entity)
                   /\ (ret'.op = "get_or_spawn_tile_entity" /\ ret'.result.kind = "Ok")
                         => EntityAfter(ret'.cell) = ret'.result]_vars

\* the manager was pointed at the secondary layer; its next call wrote a
\* tile, which is read on the secondary layer and not on the default layer
C23_Witness ==
    /\ pc = "twice"
    /\ TilemapManager_layer(layer_index) = SecondaryLayer
    /\ ret.op = "sets_tile_data" /\ ret.result = Ok(0)
    /\ TilemapManager_get_tile_data(chunks, chunk_entities, SecondaryLayer, ret.cell)
          = Ok(ret.tile_data)
    /\ TilemapManager_get_tile_data(chunks, chunk_entities, DefaultLayer, ret.cell).kind
          = "Ok"
    /\ TilemapManager_get_tile_data(chunks, chunk_entities, DefaultLayer, ret.cell)
          # Ok(ret.tile_data)

\* C24: hex_offset_from_orientation maps Pointy to OddRows and Flat to
\* OddColumns; hex_rotation maps Pointy to a z-rotation of 0 and Flat to a
\* z-rotation of the f32 of 0.52359878 rad, which is 30 degrees (pi / 6) to
\* the last place of an f32; both are defined on the two orientations
C24_HexOrientationMapping ==
    /\ ret.op = "hex_offset_from_orientation"
          => /\ ret.orientation = "Pointy" => ret.val = "OddRows"
             /\ ret.orientation = "Flat" => ret.val = "OddColumns"
    /\ ret.op = "hex_rotation"
          => /\ ret.val.axis = "z"
             /\ ret.orientation = "Pointy" => ret.val.angle = 0
             /\ ret.orientation = "Flat"
                   => LET \* pi and one unit in the last place of an f32 of
                          \* [1/2, 1), as counts of 2^-26
                          pi == 210828714
                          ulp == 2 ^ (FracBits - F32Bits)
                      IN  /\ ret.val.angle = 8784530 * ulp
                          /\ (6 * ret.val.angle) - pi <= 6 * ulp
                          /\ pi - (6 * ret.val.angle) <= 6 * ulp

\* the flat orientation was mapped to its offset mode
C24_Witness ==
    /\ ret.op = "hex_offset_from_orientation"
    /\ ret.orientation = "Flat"
    /\ ret.val = "OddColumns"

\* C25: whenever sets_tile_data(value, cell) returns Ok, a following
\* get_tile_data(cell) on the same layer returns value, on a dense and on a
\* sparse layer, also for a cell that resolves to an existing edge chunk
\* and lies outside the dimensions of that chunk
C25_WriteAcknowledged ==
    [][(pc' # pc /\ ret'.op = "sets_tile_data" /\ ret'.result.kind = "Ok")
       => TilemapManager_get_tile_data(chunks', chunk_entities', layer_index',
                                       ret'.cell) = Ok(ret'.tile_data)]_vars

\* C26: the 64-bit key of a ChunkCell is distinct for distinct ChunkCells,
\* negative coordinates included, so a set_tile_data at one ChunkCell never
\* changes what is read at another ChunkCell of the same layer
C26_KeyInjective ==
    [][\A c \in ChunkCells, v \in TileValues :
          (/\ pc = "chunk" /\ nops' = nops + 1
           /\ chunks' = <<<<Chunk_set_tile_data(TheChunk, DefaultLayer, c, v)>>>>)
          => \A d \in ChunkCells \ {c} :
                /\ u64_key(d) # u64_key(c)
                /\ Chunk_get_tile_data(chunks'[1][1], DefaultLayer, d)
                      = Chunk_get_tile_data(TheChunk, DefaultLayer, d)]_vars

\* C27: after the build, reading the default layer at any cell inside the
\* map returns the data of the main layer given to TilemapBuilder::new,
\* whatever layer ids were given to add_layer, the default layer id included
C27_MainLayerPreserved ==
    pc = "built"
    => \A c \in CellsOf(args.map_size) :
          Chunk_get_tile_data(ChunkOf(c), DefaultLayer,
              into_chunk_cell(args.topo, c, args.max_chunk_size))
             = InputTile(DefaultLayer, c)

\* the local positions looked at in every chunk: inside and beside a chunk
FramePositions == {ChunkCell(x, y) : x \in (-1)..MaxSide, y \in (-1)..MaxSide}

\* the chunk, the layer and the local position a manager call on cell
\* works on
TargetOf(cell) ==
    [chunk_pos |-> ChunkOf(cell).chunk_pos,
     layer |-> layer_index,
     pos |-> chunk_cell_of(ChunkOf(cell), cell)]

\* every tile read but the one at target is what it was
TileDataFrame(target) ==
    \A cy \in 1..Len(chunks), cx \in 1..Len(chunks[1]) :
        \A l \in DOMAIN chunks[cy][cx].data, p \in FramePositions :
            [chunk_pos |-> chunks[cy][cx].chunk_pos, layer |-> l, pos |-> p] # target
            => Chunk_get_tile_data(chunks'[cy][cx], l, p)
                  = Chunk_get_tile_data(chunks[cy][cx], l, p)

\* every entity association but the one at target is what it was
TileEntityFrame(target) ==
    \A cy \in 1..Len(chunks), cx \in 1..Len(chunks[1]) :
        \A l \in DOMAIN chunks[cy][cx].data, p \in FramePositions :
            [chunk_pos |-> chunks[cy][cx].chunk_pos, layer |-> l, pos |-> p] # target
            => Chunk_get_tile_entity(chunks'[cy][cx], l, p)
                  = Chunk_get_tile_entity(chunks[cy][cx], l, p)

\* no target: the frame is everything
Nowhere == [chunk_pos |-> ChunkPos(-1, -1), layer |-> 0, pos |-> ChunkCell(0, 0)]

\* C28: for a cell inside the map, sets_tile_data at (layer, cell) leaves
\* the tile data of every other (layer, position) of every chunk and every
\* entity association as they were, and set_tile_entity at (layer, cell)
\* leaves every tile and every other entity association as they were;
\* neither changes the set of chunks, their layers, the registry or the host
C28_WriteFrame ==
    [][(pc' # pc /\ ret'.cell \in CellsOf(args.map_size))
       => /\ ret'.op = "sets_tile_data"
                => /\ TileDataFrame(TargetOf(ret'.cell))
                   /\ TileEntityFrame(Nowhere)
                   /\ OtherLayersUnchanged(layer_index)
                   /\ UNCHANGED <<chunk_entities, commands, layer_index>>
          /\ ret'.op = "set_tile_entity"
                => /\ TileDataFrame(Nowhere)
                   /\ TileEntityFrame(TargetOf(ret'.cell))
                   /\ OtherLayersUnchanged(layer_index)
                   /\ UNCHANGED <<chunk_entities, commands, layer_index>>]_vars

\* an entity was set for a cell other than (0, 0) of a map of several
\* chunks; the cell has it, and cell (0, 0) still has the builder's entity
C28_Witness ==
    /\ pc = "twice"
    /\ ret.op = "set_tile_entity" /\ ret.result = Ok(0)
    /\ ret.cell \in CellsOf(args.map_size) \ {Cell(0, 0)}
    /\ Len(chunks[1]) > 1
    /\ TilemapManager_get_tile_entity(chunks, chunk_entities, DefaultLayer, ret.cell)
          = Ok(ret.entity)
    /\ TilemapManager_get_tile_entity(chunks, chunk_entities, DefaultLayer, Cell(0, 0))
          = Ok(1)

\* C29: whenever sets_tile_data, set_tile_entity, get_or_spawn_tile_entity
\* or despawn_tile_entity returns Err, the call has changed no chunk (no
\* tile data, no entity association), no chunk handle of the tilemap, and
\* has spawned or despawned no entity.
ManagerWrites ==
    {"sets_tile_data", "set_tile_entity", "get_or_spawn_tile_entity",
     "despawn_tile_entity"}

C29_UnchangedOnErr ==
    [][(pc' # pc /\ ret'.op \in ManagerWrites /\ ret'.result.kind = "Err")
          => UNCHANGED <<chunks, chunk_entities, commands, layer_index>>]_vars

\* a write call has answered Err
C29_Witness ==
    /\ pc = "twice"
    /\ ret.op = "set_tile_entity"
    /\ ret.result.kind = "Err"

\* the tile read for cell c on layer l of the built map: the chunk at
\* MapType::into_chunk_pos(c), read at MapChunk::into_chunk_cell(c) with the
\* settings the chunk keeps
SizedRead(l, c) ==
    LET found == get_chunk(chunks, into_chunk_pos(args.topo, c,
                                       args.map_type.max_chunk_size))
    IN  IF found.some
        THEN Chunk_get_tile_data(found.val, l,
                 into_chunk_cell(args.topo, c,
                     found.val.chunk_settings.max_chunk_size))
        ELSE None

\* C30: for every combination of the max chunk size of the map data, of
\* the chunk conversion settings and of the chunk settings the layers are
\* split by, the build completes and every tile of every layer given to
\* the builder is read back at its cell through into_chunk_pos and
\* into_chunk_cell
C30_SettingsIndependence ==
    /\ pc # "panicked"
    /\ pc = "built"
       => \A l \in InputLayers, c \in CellsOf(args.map_size) :
             InputTile(l, c).some => SizedRead(l, c) = InputTile(l, c)

====
